---- MODULE Spec2Model ----
(***************************************************************************)
(* A model of tools/perf/util/probe-finder.c (linux-2.6.35): the line      *)
(* number list, the DIE navigation helpers, the location, type and field   *)
(* convertors and the probe point finder find_kprobe_trace_events.         *)
(*                                                                         *)
(* DIEs are records; an attribute a DIE does not carry is a field the      *)
(* record does not have.  Strings whose characters the code inspects       *)
(* (paths, variable expressions) are sequences of one-character strings.   *)
(* zalloc/strdup/malloc are taken to succeed, except in the line list      *)
(* where the failure of zalloc is an input of the operation.               *)
(***************************************************************************)
EXTENDS Integers, Sequences, FiniteSets, TLC

VARIABLES
    \* line number list harness
    line_list, ll_ret, ll_added,
    \* type convertor harness: the variable DIE and convert_variable_type's result
    ty_die, ty_out,
    \* location convertor harness: variable DIE, pf->fb_ops and the result
    lo_die, lo_fb, lo_out,
    \* find_kprobe_trace_events: struct probe_finder (pev, max_tevs, tevs, fname,
    \* lno, addr, lcache; ntevs is the length of tevs) and the CU offset
    pf, off,
    \* its locals: ret, the callback's retval, the ret and the sp_die of the
    \* line loops, the loop positions, the program counter, the returned value
    ret, retval, lret, lazy_sp, idx, inst, pc, result,
    \* history: the first error of convert_probe_point, the conversions begun
    \* after it, and whether a site was found with all max_tevs events taken
    first_err, after_err, overflow,
    \* get_real_path: the rest of raw_path, the errno values access() gave,
    \* the program counter, *new_path and the returned value
    gp,
    \* strtailcmp harness: the two strings and the returned value
    tc,
    \* find_perf_probe_point harness: addr, *ppt and the returned value
    rl,
    \* find_line_range: struct line_range and struct line_finder
    lf,
    \* convert_variable_fields harness: variable DIE, fields, tvar->ref, result
    fw

llvars == <<line_list, ll_ret, ll_added>>
tyvars == <<ty_die, ty_out>>
lovars == <<lo_die, lo_fb, lo_out>>
pfvars == <<pf, off>>
ctlvars == <<ret, retval, lret, lazy_sp, idx, inst, pc, result>>
histvars == <<first_err, after_err, overflow>>
fvars == <<pfvars, ctlvars, histvars>>
xvars == <<gp, tc, rl, lf, fw>>

vars == <<llvars, tyvars, lovars, fvars, xvars>>

-----------------------------------------------------------------------------
(* errno values and DWARF constants used by the code *)

E2BIG == 7
ENOENT == 2
ENOMEM == 12
EINVAL == 22
ERANGE == 34
ENOTSUP == 95

MAX_BASIC_TYPE_BITS == 64

DW_OP_addr == 3
DW_OP_plus_uconst == 35
DW_OP_reg0 == 80
DW_OP_reg31 == 111
DW_OP_breg0 == 112
DW_OP_breg31 == 143
DW_OP_regx == 144
DW_OP_fbreg == 145
DW_OP_bregx == 146
DW_OP_call_frame_cfa == 156

(* bounds of the model *)
MaxLine == 7
MaxByteSize == 17
MaxOffs == 1
NumArchRegs == 2
MaxAddr == 9

NULL == [tag |-> "NULL"]
IsNull(d) == d.tag = "NULL"
Has(d, f) == f \in DOMAIN d

-----------------------------------------------------------------------------
(* Line number list operations *)

\* list_for_each_entry_reverse of line_list__add_line: scan from the tail;
\* stop at the first node below `line` (insert after it) or equal to it.
\* a search that takes every node for a smaller line and never meets the line
ReverseSearch_blind(head, line, i) == [exist |-> FALSE, p |-> i]

RECURSIVE ReverseSearch(_, _, _)
ReverseSearch(head, line, i) ==
    IF i = 0 THEN [exist |-> FALSE, p |-> 0]
    ELSE IF head[i] < line THEN [exist |-> FALSE, p |-> i]
    ELSE IF head[i] = line THEN [exist |-> TRUE, p |-> i]
    ELSE ReverseSearch(head, line, i - 1)

\* a list_add that links the new node at the tail whatever p is
list_add_tail(head, p, line) == head \o <<line>>

\* list_add(&ln->list, p): the new node follows node p (p = 0 is the head)
list_add(head, p, line) ==
    SubSeq(head, 1, p) \o <<line>> \o SubSeq(head, p + 1, Len(head))

line_list__add_line(head, line, zalloc_ok) ==
    LET s == ReverseSearch(head, line, Len(head)) IN
    IF s.exist THEN [ret |-> 1, list |-> head]
    ELSE IF ~zalloc_ok THEN [ret |-> -ENOMEM, list |-> head]
    ELSE [ret |-> 0, list |-> list_add(head, s.p, line)]

line_list__has_line(head, line) ==
    IF \E i \in 1..Len(head) : head[i] = line THEN 1 ELSE 0

line_list__init == <<>>

line_list__free(head) == <<>>

-----------------------------------------------------------------------------
(* Dwarf wrappers *)

QualifierTags ==
    {"DW_TAG_const_type", "DW_TAG_restrict_type", "DW_TAG_volatile_type",
     "DW_TAG_shared_type", "DW_TAG_typedef"}

\* Get type die, but skip qualifiers and typedef
RECURSIVE die_get_real_type(_)
die_get_real_type(vr_die) ==
    IF ~Has(vr_die, "type") THEN NULL
    ELSE IF vr_die.type.tag \in QualifierTags THEN die_get_real_type(vr_die.type)
    ELSE vr_die.type

SignedEncodings == {"DW_ATE_signed_char", "DW_ATE_signed", "DW_ATE_signed_fixed"}

die_is_signed_type(tp_die) ==
    IF ~Has(tp_die, "encoding") THEN FALSE
    ELSE tp_die.encoding \in SignedEncodings

die_get_byte_size(tp_die) ==
    IF ~Has(tp_die, "byte_size") THEN 0 ELSE tp_die.byte_size

-----------------------------------------------------------------------------
(* Type convertor *)

\* number of characters snprintf("%d") writes for 0 <= n
RECURSIVE DecimalLen(_)
DecimalLen(n) == IF n < 10 THEN 1 ELSE 1 + DecimalLen(n \div 10)

NoType == <<>>

\* a convertor without the MAX_BASIC_TYPE_BITS cut
convert_variable_type_uncut(vr_die) ==
    LET type == die_get_real_type(vr_die) IN
    IF IsNull(type) THEN [ret |-> -ENOENT, type |-> NoType]
    ELSE
      LET bits == die_get_byte_size(type) * 8 IN
      IF bits = 0 THEN [ret |-> 0, type |-> NoType]
      ELSE [ret |-> 0, type |-> <<IF die_is_signed_type(type) THEN "s" ELSE "u", bits>>]

\* targ->type is kept as <<sign character, bit width>>, the two conversions
\* of snprintf(buf, 16, "%c%d", ...)
convert_variable_type(vr_die) ==
    LET type == die_get_real_type(vr_die) IN
    IF IsNull(type) THEN [ret |-> -ENOENT, type |-> NoType]
    ELSE
      LET bits == die_get_byte_size(type) * 8 IN
      IF bits = 0 THEN [ret |-> 0, type |-> NoType]
      ELSE
        LET cut == IF bits > MAX_BASIC_TYPE_BITS THEN MAX_BASIC_TYPE_BITS ELSE bits
            n == 1 + DecimalLen(cut)
        IN  IF n >= 16 THEN [ret |-> -E2BIG, type |-> NoType]
            ELSE [ret |-> 0,
                  type |-> <<IF die_is_signed_type(type) THEN "s" ELSE "u", cut>>]

-----------------------------------------------------------------------------
(* Location convertor *)

Digits == <<"0", "1", "2", "3", "4", "5", "6", "7", "8", "9">>

\* The architecture's register table: registers 0 .. NumArchRegs-1 have a
\* name, any other number has none.
get_arch_regstr(regn) ==
    IF regn >= 0 /\ regn < NumArchRegs THEN <<"%", "r", Digits[regn + 1]>> ELSE <<>>

\* libdw: the first entry of a location list that covers addr; n is the
\* number of expressions found (at most one is asked for).
dwarf_getlocation_addr(loclist, addr) ==
    LET hit == {i \in 1..Len(loclist) : loclist[i].lo <= addr /\ addr < loclist[i].hi} IN
    IF hit = {} THEN [n |-> 0, ops |-> <<>>]
    ELSE [n |-> 1, ops |-> loclist[CHOOSE i \in hit : \A j \in hit : i <= j].ops]

\* an allocator that hands out no reference node
alloc_trace_arg_ref_none(offs) == <<>>

alloc_trace_arg_ref(offs) == <<offs>>

NoLocation == [ret |-> 0, value |-> <<>>, ref |-> <<>>]

\* a decoder for which a based register replaces the offset instead of adding to it
DecodeRegisterOp_assign(op, offs, ref) ==
    IF op.atom >= DW_OP_breg0 /\ op.atom <= DW_OP_breg31
    THEN [ok |-> TRUE, regn |-> op.atom - DW_OP_breg0, offs |-> op.number, ref |-> TRUE]
    ELSE IF op.atom >= DW_OP_reg0 /\ op.atom <= DW_OP_reg31
    THEN [ok |-> TRUE, regn |-> op.atom - DW_OP_reg0, offs |-> offs, ref |-> ref]
    ELSE IF op.atom = DW_OP_bregx
    THEN [ok |-> TRUE, regn |-> op.number, offs |-> op.number2, ref |-> TRUE]
    ELSE IF op.atom = DW_OP_regx
    THEN [ok |-> TRUE, regn |-> op.number, offs |-> offs, ref |-> ref]
    ELSE [ok |-> FALSE, regn |-> 0, offs |-> offs, ref |-> ref]

\* Register part of convert_variable_location (the if/else chain on op->atom)
DecodeRegisterOp(op, offs, ref) ==
    IF op.atom >= DW_OP_breg0 /\ op.atom <= DW_OP_breg31
    THEN [ok |-> TRUE, regn |-> op.atom - DW_OP_breg0, offs |-> offs + op.number, ref |-> TRUE]
    ELSE IF op.atom >= DW_OP_reg0 /\ op.atom <= DW_OP_reg31
    THEN [ok |-> TRUE, regn |-> op.atom - DW_OP_reg0, offs |-> offs, ref |-> ref]
    ELSE IF op.atom = DW_OP_bregx
    THEN [ok |-> TRUE, regn |-> op.number, offs |-> offs + op.number2, ref |-> TRUE]
    ELSE IF op.atom = DW_OP_regx
    THEN [ok |-> TRUE, regn |-> op.number, offs |-> offs, ref |-> ref]
    ELSE [ok |-> FALSE, regn |-> 0, offs |-> offs, ref |-> ref]

\* a convertor that takes a missing frame base for register 0
convert_variable_location_nofb(vr_die, addr, fb_ops) ==
    LET loc == IF Has(vr_die, "location")
               THEN dwarf_getlocation_addr(vr_die.location, addr)
               ELSE [n |-> 0, ops |-> <<>>]
    IN
    IF ~Has(vr_die, "location") \/ loc.n <= 0 \/ Len(loc.ops) = 0
    THEN [NoLocation EXCEPT !.ret = -ENOENT]
    ELSE
      LET op == loc.ops[1] IN
      IF op.atom = DW_OP_addr
      THEN [ret |-> 0, value |-> <<"@">> \o vr_die.name, ref |-> alloc_trace_arg_ref(0)]
      ELSE
        LET d == IF op.atom = DW_OP_fbreg
                 THEN IF fb_ops = <<>>
                      THEN [ok |-> TRUE, regn |-> 0, offs |-> op.number, ref |-> TRUE]
                      ELSE DecodeRegisterOp(fb_ops[1], op.number, TRUE)
                 ELSE DecodeRegisterOp(op, 0, FALSE)
            regs == get_arch_regstr(d.regn)
        IN  IF ~d.ok THEN [NoLocation EXCEPT !.ret = -ENOTSUP]
            ELSE IF regs = <<>> THEN [NoLocation EXCEPT !.ret = -ERANGE]
            ELSE [ret |-> 0, value |-> regs,
                  ref |-> IF d.ref THEN alloc_trace_arg_ref(d.offs) ELSE <<>>]

\* Show a location: fb_ops = <<>> is pf->fb_ops == NULL
convert_variable_location(vr_die, addr, fb_ops) ==
    LET loc == IF Has(vr_die, "location")
               THEN dwarf_getlocation_addr(vr_die.location, addr)
               ELSE [n |-> 0, ops |-> <<>>]
    IN
    IF ~Has(vr_die, "location") \/ loc.n <= 0 \/ Len(loc.ops) = 0
    THEN [NoLocation EXCEPT !.ret = -ENOENT]
    ELSE
      LET op == loc.ops[1] IN
      IF op.atom = DW_OP_addr
      THEN [ret |-> 0, value |-> <<"@">> \o vr_die.name, ref |-> alloc_trace_arg_ref(0)]
      ELSE IF op.atom = DW_OP_fbreg /\ fb_ops = <<>>
      THEN [NoLocation EXCEPT !.ret = -ENOTSUP]
      ELSE
        LET d == IF op.atom = DW_OP_fbreg
                 THEN DecodeRegisterOp(fb_ops[1], op.number, TRUE)
                 ELSE DecodeRegisterOp(op, 0, FALSE)
            regs == get_arch_regstr(d.regn)
        IN  IF ~d.ok THEN [NoLocation EXCEPT !.ret = -ENOTSUP]
            ELSE IF regs = <<>> THEN [NoLocation EXCEPT !.ret = -ERANGE]
            ELSE [ret |-> 0, value |-> regs,
                  ref |-> IF d.ref THEN alloc_trace_arg_ref(d.offs) ELSE <<>>]

-----------------------------------------------------------------------------
(* DIE navigation *)

\* Compare the tail of two strings: 0 iff the whole of either string is the
\* tail of the other (the difference of the first differing characters is
\* kept as 1: only its being non-zero is used)
\* a comparison that looks at the last characters only
strtailcmp_last(s1, s2, i1, i2) ==
    IF i1 < 1 \/ i2 < 1 THEN 0 ELSE IF s1[i1] # s2[i2] THEN 1 ELSE 0

RECURSIVE strtailcmp_from(_, _, _, _)
strtailcmp_from(s1, s2, i1, i2) ==
    IF i1 < 1 \/ i2 < 1 THEN 0
    ELSE IF s1[i1] # s2[i2] THEN 1
    ELSE strtailcmp_from(s1, s2, i1 - 1, i2 - 1)

strtailcmp(s1, s2) == strtailcmp_from(s1, s2, Len(s1), Len(s2))

\* Find the realpath of the target file: <<>> is NULL
cu_find_realpath(cu_die, fname) ==
    IF fname = <<>> \/ ~Has(cu_die, "files") THEN <<>>
    ELSE LET hit == {i \in 1..Len(cu_die.files) : strtailcmp(cu_die.files[i], fname) = 0} IN
         IF hit = {} THEN <<>>
         ELSE cu_die.files[CHOOSE i \in hit : \A j \in hit : i <= j]

\* Compare diename and tname: 0 iff the DIE has the name
die_compare_name(dw_die, tname) ==
    IF Has(dw_die, "name") /\ dw_die.name = tname THEN 0 ELSE 1

dwarf_haspc(die, addr) ==
    Has(die, "lowpc") /\ Has(die, "highpc") /\ die.lowpc <= addr /\ addr < die.highpc

Children(die) == IF Has(die, "children") THEN die.children ELSE <<>>

DIE_FIND_CB_FOUND == 0
DIE_FIND_CB_CHILD == 1
DIE_FIND_CB_SIBLING == 2
DIE_FIND_CB_CONTINUE == 3

\* die_find callback for inline function search
die_find_inline_cb(die_mem, addr) ==
    IF die_mem.tag = "DW_TAG_inlined_subroutine" /\ dwarf_haspc(die_mem, addr)
    THEN DIE_FIND_CB_FOUND ELSE DIE_FIND_CB_CONTINUE

die_find_variable_cb(die_mem, name) ==
    IF die_mem.tag \in {"DW_TAG_formal_parameter", "DW_TAG_variable"}
       /\ die_compare_name(die_mem, name) = 0
    THEN DIE_FIND_CB_FOUND ELSE DIE_FIND_CB_CONTINUE

die_find_member_cb(die_mem, name) ==
    IF die_mem.tag = "DW_TAG_member" /\ die_compare_name(die_mem, name) = 0
    THEN DIE_FIND_CB_FOUND ELSE DIE_FIND_CB_SIBLING

Callback(cb, die_mem, data) ==
    CASE cb = "inline" -> die_find_inline_cb(die_mem, data)
      [] cb = "variable" -> die_find_variable_cb(die_mem, data)
      [] cb = "member" -> die_find_member_cb(die_mem, data)

\* Search a child die: the do-while over the siblings from the i-th child
RECURSIVE die_find_from(_, _, _, _)
die_find_from(siblings, i, cb, data) ==
    IF i > Len(siblings) THEN NULL
    ELSE
      LET cb_ret == Callback(cb, siblings[i], data)
          child == IF (cb_ret \div DIE_FIND_CB_CHILD) % 2 = 1
                   THEN die_find_from(Children(siblings[i]), 1, cb, data)
                   ELSE NULL
      IN  IF cb_ret = DIE_FIND_CB_FOUND THEN siblings[i]
          ELSE IF ~IsNull(child) THEN child
          ELSE IF (cb_ret \div DIE_FIND_CB_SIBLING) % 2 = 1
          THEN die_find_from(siblings, i + 1, cb, data)
          ELSE NULL

die_find_child(rt_die, cb, data) == die_find_from(Children(rt_die), 1, cb, data)

\* dwarf_getfuncs: the subprogram DIEs of a CU, in order
Funcs(cu_die) ==
    SelectSeq(Children(cu_die), LAMBDA d : d.tag = "DW_TAG_subprogram")

\* Search a real subprogram including this line
die_find_real_subprogram(cu_die, addr) ==
    LET fs == Funcs(cu_die)
        hit == {i \in 1..Len(fs) : dwarf_haspc(fs[i], addr)}
    IN  IF hit = {} THEN NULL ELSE fs[CHOOSE i \in hit : \A j \in hit : i <= j]

\* a search that finds no inlined instance
die_find_inlinefunc_none(sp_die, addr) == NULL

\* Similar to dwarf_getfuncs, but returns inlined_subroutine if exists
die_find_inlinefunc(sp_die, addr) == die_find_child(sp_die, "inline", addr)

\* Find a variable called 'name'
die_find_variable(sp_die, name) == die_find_child(sp_die, "variable", name)

\* a search that takes the first child whatever its name
die_find_member_first(st_die, name) ==
    IF Children(st_die) = <<>> THEN NULL ELSE Children(st_die)[1]

\* Find a member called 'name'
die_find_member(st_die, name) == die_find_child(st_die, "member", name)

\* Get data_member_location offset: a constant form, or an expression
\* that must be one DW_OP_plus_uconst
die_get_data_member_location(mb_die) ==
    IF ~Has(mb_die, "data_member_location") THEN [ret |-> -ENOENT, offs |-> 0]
    ELSE LET a == mb_die.data_member_location IN
         IF a.form = "udata" THEN [ret |-> 0, offs |-> a.val]
         ELSE IF Len(a.ops) = 0 THEN [ret |-> -ENOENT, offs |-> 0]
         ELSE IF a.ops[1].atom # DW_OP_plus_uconst \/ Len(a.ops) # 1
         THEN [ret |-> -ENOTSUP, offs |-> 0]
         ELSE [ret |-> 0, offs |-> a.ops[1].number]

-----------------------------------------------------------------------------
(* Field convertor *)

\* the offset added to the first reference of the chain
AddToFirst(ref, offs) == [ref EXCEPT ![1] = @ + offs]

\* ref->offset += offs on the last reference of the chain
AddToLast(ref, offs) == [ref EXCEPT ![Len(ref)] = @ + offs]

FieldResult(r, ref, die_mem) == [ret |-> r, ref |-> ref, die_mem |-> die_mem, fault |-> FALSE]

\* `ref` is the chain hanging off tvar->ref, whose last node is *ref_ptr
\* (<<>> when *ref_ptr is NULL); die_mem is returned for the type convertor.
\* fault: the code dereferences a NULL reference.
RECURSIVE convert_variable_fields(_, _, _, _)
convert_variable_fields(vr_die, field, k, ref) ==
    LET f == field[k]
        more == k < Len(field)
        type == die_get_real_type(vr_die)
        tag == type.tag
        inner == die_get_real_type(type)
    IN
    IF IsNull(type) THEN FieldResult(-ENOENT, ref, NULL)
    ELSE IF f.name[1] = "[" /\ tag \in {"DW_TAG_array_type", "DW_TAG_pointer_type"}
    THEN
      IF IsNull(inner) THEN FieldResult(-ENOENT, ref, NULL)
      ELSE
        LET ref1 == IF tag = "DW_TAG_pointer_type" THEN Append(ref, 0) ELSE ref IN
        IF ref1 = <<>> THEN [FieldResult(0, ref, NULL) EXCEPT !.fault = TRUE]
        ELSE
          LET ref2 == AddToLast(ref1, die_get_byte_size(inner) * f.index) IN
          IF more THEN convert_variable_fields(type, field, k + 1, ref2)
          ELSE FieldResult(0, ref2, vr_die)
    ELSE
      LET pointer == tag = "DW_TAG_pointer_type"
          st == IF pointer THEN inner ELSE type
          err == IF pointer
                 THEN (IF ~f.ref THEN -EINVAL
                       ELSE IF IsNull(inner) THEN -ENOENT
                       ELSE IF inner.tag # "DW_TAG_structure_type" THEN -EINVAL
                       ELSE 0)
                 ELSE (IF tag # "DW_TAG_structure_type" THEN -EINVAL
                       ELSE IF f.name[1] = "[" THEN -EINVAL
                       ELSE IF f.ref THEN -EINVAL
                       ELSE IF ref = <<>> THEN -ENOTSUP
                       ELSE 0)
          ref1 == IF pointer THEN Append(ref, 0) ELSE ref
      IN
      IF err # 0 THEN FieldResult(err, ref, NULL)
      ELSE
        LET member == die_find_member(st, f.name)
            loc == die_get_data_member_location(member)
        IN
        IF IsNull(member) THEN FieldResult(-EINVAL, ref1, NULL)
        ELSE IF loc.ret < 0 THEN FieldResult(loc.ret, ref1, member)
        ELSE
          LET ref2 == AddToLast(ref1, loc.offs) IN
          IF more THEN convert_variable_fields(member, field, k + 1, ref2)
          ELSE FieldResult(0, ref2, member)

-----------------------------------------------------------------------------
(* Variables and probe points *)

\* a zalloc'ed struct kprobe_trace_arg
ZeroArg == [name |-> <<>>, value |-> <<>>, ref |-> <<>>, type |-> NoType]

ArgResult(r, tvar) == [ret |-> r, tvar |-> tvar, fault |-> FALSE]

\* Show a variables in kprobe event format
convert_variable(vr_die, addr, fb_ops, pvar, tvar) ==
    LET Typed(t2, t) == ArgResult(t.ret, [t2 EXCEPT !.type = t.type])
        Walked(t1, f) ==
            IF f.fault THEN [ArgResult(0, [t1 EXCEPT !.ref = f.ref]) EXCEPT !.fault = TRUE]
            ELSE IF f.ret # 0 THEN ArgResult(f.ret, [t1 EXCEPT !.ref = f.ref])
            ELSE IF pvar.type # NoType
            THEN ArgResult(0, [t1 EXCEPT !.ref = f.ref, !.type = pvar.type])
            ELSE Typed([t1 EXCEPT !.ref = f.ref], convert_variable_type(f.die_mem))
        Located(l) ==
            IF l.ret # 0 THEN ArgResult(l.ret, [tvar EXCEPT !.value = l.value, !.ref = l.ref])
            ELSE Walked([tvar EXCEPT !.value = l.value, !.ref = l.ref],
                        IF pvar.field # <<>>
                        THEN convert_variable_fields(vr_die, pvar.field, 1, l.ref)
                        ELSE FieldResult(0, l.ref, vr_die))
    IN  Located(convert_variable_location(vr_die, addr, fb_ops))

\* is_c_varname (util/string.c): a letter or '_' first
Letters ==
    {"a", "b", "c", "d", "e", "f", "g", "h", "i", "j", "k", "l", "m", "n", "o", "p", "q",
     "r", "s", "t", "u", "v", "w", "x", "y", "z", "A", "B", "C", "D", "E", "F", "G", "H",
     "I", "J", "K", "L", "M", "N", "O", "P", "Q", "R", "S", "T", "U", "V", "W", "X", "Y", "Z"}

is_c_varname(var) ==
    /\ var # <<>>
    /\ var[1] \in Letters \cup {"_"}
    /\ \A i \in 2..Len(var) : var[i] \in Letters \cup {"_"} \cup {Digits[d] : d \in 1..10}

RECURSIVE FieldText(_, _)
FieldText(field, k) ==
    IF k > Len(field) THEN <<>>
    ELSE (IF field[k].name[1] = "[" THEN <<>>
          ELSE IF field[k].ref THEN <<"-", ">">> ELSE <<".">>)
         \o field[k].name \o FieldText(field, k + 1)

\* synthesize_perf_probe_arg (probe-event.c) without the name= part, then
\* the first ':' changed to '_'
SynthesizedName(pvar) ==
    pvar.var \o FieldText(pvar.field, 1)
    \o (IF pvar.type # NoType THEN <<"_", pvar.type[1]>> ELSE <<>>)

\* dwarf_getscopes_die + dwarf_getscopevar: past the subprogram's own tree
\* (searched before), the variables of the compilation unit
ScopeVar(cu_die, name) ==
    LET cs == Children(cu_die)
        hit == {i \in 1..Len(cs) : cs[i].tag = "DW_TAG_variable" /\ die_compare_name(cs[i], name) = 0}
    IN  IF hit = {} THEN NULL ELSE cs[CHOOSE i \in hit : \A j \in hit : i <= j]

\* Find a variable in a subprogram die
find_variable(cu_die, sp_die, addr, fb_ops, pvar, tvar) ==
    LET Named(t0) ==
            IF ~is_c_varname(pvar.var) THEN ArgResult(0, [t0 EXCEPT !.value = pvar.var])
            ELSE
              LET Upper(vr_die) ==
                      IF ~IsNull(vr_die) THEN convert_variable(vr_die, addr, fb_ops, pvar, t0)
                      ELSE ArgResult(-ENOENT, t0)
                  Local(vr_die) ==
                      IF ~IsNull(vr_die) THEN vr_die ELSE ScopeVar(cu_die, pvar.var)
              IN  Upper(Local(die_find_variable(sp_die, pvar.var)))
    IN  Named([tvar EXCEPT !.name = IF pvar.name # <<>> THEN pvar.name
                                    ELSE SynthesizedName(pvar)])

\* the for loop of convert_probe_point over pev->args, from argument i
RECURSIVE FindEachArgument(_, _, _, _, _, _, _)
FindEachArgument(cu_die, sp_die, addr, fb_ops, pargs, targs, i) ==
    LET Got(r) ==
            IF r.fault \/ r.ret # 0
            THEN [ret |-> r.ret, args |-> [targs EXCEPT ![i] = r.tvar], fault |-> r.fault]
            ELSE FindEachArgument(cu_die, sp_die, addr, fb_ops, pargs,
                                  [targs EXCEPT ![i] = r.tvar], i + 1)
    IN  IF i > Len(pargs) THEN [ret |-> 0, args |-> targs, fault |-> FALSE]
        ELSE Got(find_variable(cu_die, sp_die, addr, fb_ops, pargs[i], targs[i]))

\* dwarf_entrypc
HasEntryPc(die) == Has(die, "lowpc")

\* a zalloc'ed struct kprobe_trace_event; `done` records that
\* convert_probe_point returned 0 for it, `sp` the subprogram it was put in
ZeroEvent == [symbol |-> <<>>, offset |-> 0, args |-> <<>>, done |-> FALSE, sp |-> NULL]

PointResult(r, tevs) == [ret |-> r, tevs |-> tevs, fault |-> FALSE]

\* The frame base attribute/ops at addr.  A subprogram without
\* DW_AT_frame_base leaves fb_attr as it was on the stack: `stale` is what
\* it then holds.  cfi: the CFA rows of the call frame information.
FrameBaseOps(sp_die, addr, stale, cfi) ==
    LET fb_attr == IF Has(sp_die, "frame_base") THEN sp_die.frame_base ELSE stale
        l == dwarf_getlocation_addr(fb_attr, addr)
        cfa == dwarf_getlocation_addr(cfi, addr)
    IN
    IF l.n <= 0 \/ Len(l.ops) = 0 THEN [ret |-> 0, fb_ops |-> <<>>]
    ELSE IF Len(l.ops) = 1 /\ l.ops[1].atom = DW_OP_call_frame_cfa
    THEN (IF cfa.n = 0 THEN [ret |-> -ENOENT, fb_ops |-> l.ops]
          ELSE [ret |-> 0, fb_ops |-> cfa.ops])
    ELSE [ret |-> 0, fb_ops |-> l.ops]

\* Show a probe point to output buffer: tevs holds the pf->ntevs events
\* taken so far
convert_probe_point(cu_die, sp_die, addr, stale, cfi, pev, tevs, max_tevs) ==
    LET n == Len(tevs) + 1
        taken == Append(tevs, ZeroEvent)
        Filled(pointed, a) ==
            IF a.fault THEN [PointResult(0, [pointed EXCEPT ![n].args = a.args])
                                EXCEPT !.fault = TRUE]
            ELSE IF a.ret # 0 THEN PointResult(a.ret, [pointed EXCEPT ![n].args = a.args])
            ELSE PointResult(0, [pointed EXCEPT ![n].args = a.args, ![n].done = TRUE])
        Based(sp, pointed, fb) ==
            IF fb.ret # 0 THEN PointResult(fb.ret, pointed)
            ELSE Filled(pointed,
                        FindEachArgument(cu_die, sp, addr, fb.fb_ops, pev.args,
                                         [i \in 1..Len(pev.args) |-> ZeroArg], 1))
        In(sp) ==
            IF IsNull(sp) THEN PointResult(-ENOENT, taken)
            ELSE IF Has(sp, "name") /\ ~HasEntryPc(sp) THEN PointResult(-ENOENT, taken)
            ELSE Based(sp,
                       IF Has(sp, "name")
                       THEN [taken EXCEPT ![n].symbol = sp.name,
                                          ![n].offset = addr - sp.lowpc, ![n].sp = sp]
                       ELSE [taken EXCEPT ![n].offset = addr, ![n].sp = sp],
                       FrameBaseOps(sp, addr, stale, cfi))
    IN
    IF Len(tevs) = max_tevs THEN PointResult(-ERANGE, tevs)
    ELSE In(IF IsNull(sp_die) \/ sp_die.tag # "DW_TAG_subprogram"
            THEN die_find_real_subprogram(cu_die, addr)
            ELSE sp_die)

-----------------------------------------------------------------------------
(* The debug information and the sources the finder is run on *)

Op(atom, number) == [atom |-> atom, number |-> number, number2 |-> 0]

At(lo, hi, ops) == <<[lo |-> lo, hi |-> hi, ops |-> ops]>>

Always(ops) == At(0, MaxAddr + MaxAddr + 2, ops)

Path_a == <<"/", "k", "/", "a", ".", "c">>
Path_b == <<"/", "k", "/", "b", ".", "c">>

IntType == [tag |-> "DW_TAG_base_type", name |-> <<"i">>, byte_size |-> 4, encoding |-> "DW_ATE_signed"]

Member(name, type, offs) ==
    [tag |-> "DW_TAG_member", name |-> name, type |-> type,
     data_member_location |-> [form |-> "udata", val |-> offs, ops |-> <<>>]]

\* struct B { int c; int d; }, d located by an expression
StructB ==
    [tag |-> "DW_TAG_structure_type", name |-> <<"B">>, byte_size |-> 8,
     children |-> <<Member(<<"c">>, IntType, 0),
                    [tag |-> "DW_TAG_member", name |-> <<"d">>, type |-> IntType,
                     data_member_location |->
                        [form |-> "expr", val |-> 0, ops |-> <<Op(DW_OP_plus_uconst, 4)>>]]>>]

PointerTo(type) == [tag |-> "DW_TAG_pointer_type", byte_size |-> 8, type |-> type]

ArrayOf(type) == [tag |-> "DW_TAG_array_type", type |-> type]

\* struct S { int k; struct B a; struct B *b; int arr[]; }
StructS ==
    [tag |-> "DW_TAG_structure_type", name |-> <<"S">>, byte_size |-> 32,
     children |-> <<Member(<<"k">>, IntType, 0), Member(<<"a">>, StructB, 4),
                    Member(<<"b">>, PointerTo(StructB), 16),
                    Member(<<"v">>, ArrayOf(IntType), 24)>>]

Var(tag, name, type, location) ==
    [tag |-> tag, name |-> name, type |-> type, location |-> location]

\* an instance of the inline function g at [lo, hi), its local y in register reg
InlinedG(lo, hi, reg) ==
    [tag |-> "DW_TAG_inlined_subroutine", name |-> <<"g">>, lowpc |-> lo, highpc |-> hi,
     children |-> <<Var("DW_TAG_variable", <<"y">>, IntType, Always(<<Op(DW_OP_reg0 + reg, 0)>>))>>]

\* f: [0, 4), frame base breg1+2, g inlined at [2, 3)
Func_f ==
    [tag |-> "DW_TAG_subprogram", name |-> <<"f">>, decl_file |-> Path_a, decl_line |-> 1,
     lowpc |-> 0, highpc |-> 4, frame_base |-> Always(<<Op(DW_OP_breg0 + 1, 2)>>),
     children |->
        <<Var("DW_TAG_formal_parameter", <<"x">>, IntType, Always(<<Op(DW_OP_fbreg, 1)>>)),
          Var("DW_TAG_variable", <<"r">>, IntType, Always(<<Op(DW_OP_reg0, 0)>>)),
          Var("DW_TAG_variable", <<"p">>, PointerTo(StructS), Always(<<Op(DW_OP_breg0, 1)>>)),
          Var("DW_TAG_variable", <<"q">>, IntType, At(0, 2, <<Op(DW_OP_reg0 + 1, 0)>>)),
          Var("DW_TAG_variable", <<"w">>, ArrayOf(IntType), Always(<<Op(DW_OP_reg0, 0)>>)),
          InlinedG(2, 3, 1)>>]

\* the abstract instance of the inline function g
Func_g ==
    [tag |-> "DW_TAG_subprogram", name |-> <<"g">>, decl_file |-> Path_a, decl_line |-> 6,
     inline |-> TRUE,
     children |-> <<[tag |-> "DW_TAG_variable", name |-> <<"y">>, type |-> IntType]>>]

\* h: [4, 8), no frame base, g inlined at [5, 6) and at [7, 8)
Func_h ==
    [tag |-> "DW_TAG_subprogram", name |-> <<"h">>, decl_file |-> Path_a, decl_line |-> 9,
     lowpc |-> 4, highpc |-> 8,
     children |->
        <<Var("DW_TAG_formal_parameter", <<"x">>, IntType, Always(<<Op(DW_OP_fbreg, 0)>>)),
          Var("DW_TAG_variable", <<"r">>, IntType, Always(<<Op(DW_OP_reg31, 0)>>)),
          InlinedG(5, 6, 0), InlinedG(7, 8, 0)>>]

Line(lineno, src, addr) == [lineno |-> lineno, src |-> src, addr |-> addr]

CU_a ==
    [tag |-> "DW_TAG_compile_unit", name |-> Path_a, files |-> <<Path_a>>,
     lines |-> <<Line(2, Path_a, 0), Line(3, Path_a, 1), Line(7, Path_a, 2),
                 Line(4, Path_a, 3), Line(10, Path_a, 4), Line(7, Path_a, 5),
                 Line(11, Path_a, 6), Line(8, Path_a, 7)>>,
     children |-> <<Var("DW_TAG_variable", <<"G">>, IntType, Always(<<Op(DW_OP_addr, 0)>>)),
                    Func_f, Func_g, Func_h>>]

\* a second f, in b.c: [10, 12), frame base DW_OP_call_frame_cfa
Func_f_b ==
    [tag |-> "DW_TAG_subprogram", name |-> <<"f">>, decl_file |-> Path_b, decl_line |-> 1,
     lowpc |-> 10, highpc |-> 12, frame_base |-> Always(<<Op(DW_OP_call_frame_cfa, 0)>>),
     children |->
        <<Var("DW_TAG_formal_parameter", <<"x">>, IntType, Always(<<Op(DW_OP_fbreg, 0 - 1)>>)),
          Var("DW_TAG_variable", <<"r">>, IntType, Always(<<Op(DW_OP_breg0, 1)>>))>>]

\* k, defined in a header the sources do not hold: [13, 14)
Path_k == <<"/", "k", "/", "k", ".", "h">>

Func_k ==
    [tag |-> "DW_TAG_subprogram", name |-> <<"k">>, decl_file |-> Path_k, decl_line |-> 1,
     lowpc |-> 13, highpc |-> 14]

\* a subprogram without a name: [12, 13)
Func_anon == [tag |-> "DW_TAG_subprogram", lowpc |-> 12, highpc |-> 13]

CU_b ==
    [tag |-> "DW_TAG_compile_unit", name |-> Path_b, files |-> <<Path_b, Path_k>>,
     lines |-> <<Line(3, Path_b, 10), Line(2, Path_b, 11), Line(4, Path_b, 12),
                 Line(2, Path_k, 13)>>,
     children |-> <<Func_f_b, Func_anon, Func_k>>]

\* dwarf_nextcu order
CUs == <<CU_a, CU_b>>

\* the CFA rows of the call frame information: a rule for address 10 only
Cfi == At(10, 11, <<Op(DW_OP_breg0 + 1, 1)>>)

\* what fb_attr can hold when the subprogram has no DW_AT_frame_base:
\* nothing libdw accepts, or the attribute of an earlier subprogram
StaleAttrs == {<<>>, Func_f.frame_base}

\* The source files: the lines of each that match the lazy pattern
\* (strlazymatch, util/string.c); a file not listed cannot be opened
SourceLines(fname, pat) ==
    IF pat = <<>> THEN [ok |-> TRUE, match |-> <<>>]
    ELSE IF fname = Path_a THEN [ok |-> TRUE, match |-> <<3, 7, 11>>]
    ELSE IF fname = Path_b THEN [ok |-> TRUE, match |-> <<2>>]
    ELSE [ok |-> FALSE, match |-> <<>>]

\* line_list__add_line of each matching line, in file order
RECURSIVE AddLines(_, _, _)
AddLines(head, match, k) ==
    IF k > Len(match) THEN head
    ELSE AddLines(line_list__add_line(head, match[k], TRUE).list, match, k + 1)

\* Find lines which match lazy pattern: nlines, or -errno of open()
find_lazy_match_lines(head, fname, pat) ==
    LET src == SourceLines(fname, pat) IN
    IF ~src.ok THEN [ret |-> -ENOENT, list |-> head]
    ELSE [ret |-> Len(src.match), list |-> AddLines(head, src.match, 1)]

-----------------------------------------------------------------------------
(* Inputs of the convertor harnesses *)

Encodings ==
    {"DW_ATE_boolean", "DW_ATE_float", "DW_ATE_signed", "DW_ATE_signed_char",
     "DW_ATE_unsigned", "DW_ATE_unsigned_char", "DW_ATE_signed_fixed"}

ScalarTypes ==
    {[tag |-> "DW_TAG_base_type", byte_size |-> b, encoding |-> e] :
        b \in 0..MaxByteSize, e \in Encodings}
    \cup {[tag |-> "DW_TAG_base_type", encoding |-> e] : e \in Encodings}
    \cup {[tag |-> "DW_TAG_structure_type", byte_size |-> b] : b \in 0..MaxByteSize}
    \cup {[tag |-> "DW_TAG_pointer_type", byte_size |-> 8]}

Wrap(tag, t) == [tag |-> tag, type |-> t]

TypeChains ==
    ScalarTypes
    \cup {Wrap("DW_TAG_typedef", t) : t \in ScalarTypes}
    \cup {Wrap("DW_TAG_const_type", Wrap("DW_TAG_typedef", t)) : t \in ScalarTypes}
    \cup {Wrap("DW_TAG_volatile_type", [tag |-> "DW_TAG_typedef"])}

TypedVariables ==
    {[tag |-> "DW_TAG_variable", name |-> <<"v">>, type |-> t] : t \in TypeChains}
    \cup {[tag |-> "DW_TAG_variable", name |-> <<"v">>]}

OpAtoms ==
    {DW_OP_addr, DW_OP_fbreg, DW_OP_reg0, DW_OP_reg0 + 1, DW_OP_reg31,
     DW_OP_breg0, DW_OP_breg0 + 1, DW_OP_breg31, DW_OP_regx, DW_OP_bregx,
     DW_OP_plus_uconst, DW_OP_call_frame_cfa}

Operands == (0 - MaxOffs)..MaxOffs

Ops == {[atom |-> a, number |-> n, number2 |-> m] : a \in OpAtoms, n \in Operands, m \in Operands}

\* a second op of a composite location expression
PieceOp == [atom |-> DW_OP_plus_uconst, number |-> 1, number2 |-> 0]

LocatedVariables ==
    {[tag |-> "DW_TAG_variable", name |-> <<"v">>, location |-> Always(<<op>>)] : op \in Ops}
    \cup {[tag |-> "DW_TAG_variable", name |-> <<"v">>, location |-> Always(<<op, PieceOp>>)] : op \in Ops}
    \cup {[tag |-> "DW_TAG_variable", name |-> <<"v">>, location |-> <<>>],
          [tag |-> "DW_TAG_variable", name |-> <<"v">>, location |-> Always(<<>>)],
          [tag |-> "DW_TAG_variable", name |-> <<"v">>]}

FrameBases == {<<>>} \cup {<<op>> : op \in Ops}

NotCalled == [called |-> FALSE]

-----------------------------------------------------------------------------
(* Line list harness: any sequence of add / free on one list *)

ParkedLL == line_list = <<>> /\ ll_ret = 0 /\ ll_added = {}
ParkedTy == ty_die = NULL /\ ty_out = NotCalled
ParkedLo == lo_die = NULL /\ lo_fb = <<>> /\ lo_out = NotCalled

NoPoint == [function |-> <<>>, file |-> <<>>, line |-> 0, offset |-> 0, lazy_line |-> <<>>]

\* struct probe_finder pf = {.pev = pev, .max_tevs = max_tevs}, no event taken
NewFinder(pev, max_tevs) ==
    [pev |-> pev, max_tevs |-> max_tevs, tevs |-> <<>>, fname |-> <<>>, lno |-> 0,
     addr |-> 0, lcache |-> line_list__init]

\* the state find_kprobe_trace_events starts the CU loop in
Entered ==
    /\ off = 1 /\ lazy_sp = NULL
    /\ ret = 0 /\ retval = 0 /\ lret = 0 /\ idx = 0 /\ inst = 0 /\ result = 0
    /\ first_err = 0 /\ after_err = 0 /\ overflow = FALSE

ParkedGp == gp = NotCalled
ParkedTc == tc = NotCalled
ParkedRl == rl = NotCalled
ParkedLf == lf = NotCalled
ParkedFw == fw = NotCalled
ParkedX == ParkedGp /\ ParkedTc /\ ParkedRl /\ ParkedLf /\ ParkedFw

ParkedPf == pf = NewFinder([point |-> NoPoint, args |-> <<>>], 0) /\ pc = "idle" /\ Entered

InitLL == ParkedLL /\ ParkedTy /\ ParkedLo /\ ParkedPf /\ ParkedX

AddLine ==
    \E line \in 1..MaxLine, zalloc_ok \in BOOLEAN :
        LET r == line_list__add_line(line_list, line, zalloc_ok) IN
        /\ line_list' = r.list
        /\ ll_ret' = r.ret
        /\ ll_added' = IF r.ret = 0 THEN ll_added \cup {line} ELSE ll_added
        /\ UNCHANGED <<tyvars, lovars, fvars, xvars>>

FreeList ==
    /\ line_list # <<>>
    /\ line_list' = line_list__free(line_list)
    /\ ll_ret' = 0
    /\ ll_added' = {}
    /\ UNCHANGED <<tyvars, lovars, fvars, xvars>>

NextLL == AddLine \/ FreeList

SpecLL == InitLL /\ [][NextLL]_vars

(* Type convertor harness *)

InitType == ParkedLL /\ ParkedLo /\ ParkedPf /\ ParkedX /\ ty_die \in TypedVariables /\ ty_out = NotCalled

ConvertType ==
    /\ ~ty_out.called
    /\ ty_out' = [called |-> TRUE, res |-> convert_variable_type(ty_die)]
    /\ UNCHANGED <<llvars, ty_die, lovars, fvars, xvars>>

SpecType == InitType /\ [][ConvertType]_vars

(* Location convertor harness *)

InitLoc ==
    /\ ParkedLL /\ ParkedTy /\ ParkedPf /\ ParkedX
    /\ lo_die \in LocatedVariables /\ lo_fb \in FrameBases /\ lo_out = NotCalled

ConvertLocation ==
    /\ ~lo_out.called
    /\ lo_out' = [called |-> TRUE, res |-> convert_variable_location(lo_die, 0, lo_fb)]
    /\ UNCHANGED <<llvars, tyvars, lo_die, lo_fb, fvars, xvars>>

SpecLoc == InitLoc /\ [][ConvertLocation]_vars

-----------------------------------------------------------------------------
(* find_kprobe_trace_events *)

MaxTevs == 2
MaxRelLine == 2
MaxOffset == 4

Arg(var, field) == [name |-> <<>>, var |-> var, field |-> field, type |-> NoType]

Field(name, deref) == [name |-> name, ref |-> deref, index |-> 0]

Index(n) == [name |-> <<"[", Digits[n + 1], "]">>, ref |-> FALSE, index |-> n]

ArgLists ==
    {<<>>,
     <<Arg(<<"x">>, <<>>)>>,
     <<Arg(<<"r">>, <<>>)>>,
     <<Arg(<<"y">>, <<>>)>>,
     <<Arg(<<"G">>, <<>>)>>,
     <<Arg(<<"q">>, <<>>)>>,
     <<Arg(<<"$", "r">>, <<>>)>>,
     <<Arg(<<"r">>, <<>>), Arg(<<"x">>, <<>>)>>,
     <<Arg(<<"p">>, <<Field(<<"k">>, TRUE)>>)>>,
     <<[name |-> <<"n">>, var |-> <<"p">>,
        field |-> <<Field(<<"a">>, TRUE), Field(<<"d">>, FALSE)>>, type |-> <<"x", 64>>]>>,
     <<Arg(<<"p">>, <<Field(<<"b">>, TRUE), Field(<<"c">>, TRUE)>>)>>,
     <<Arg(<<"w">>, <<Index(1)>>)>>}

FunctionNames == {<<"f">>, <<"g">>, <<"h">>, <<"k">>, <<"z">>}

FileNames == {<<"a", ".", "c">>, <<"b", ".", "c">>}

LazyPattern == <<"r", "*">>

\* the probe points the parser of the probe syntax produces:
\* FUNC[@SRC][:RLN|+OFFS|;PTN], SRC:ALN and SRC;PTN
Points ==
    {[NoPoint EXCEPT !.function = fn, !.file = fl] :
        fn \in FunctionNames, fl \in FileNames \cup {<<>>}}
    \cup {[NoPoint EXCEPT !.function = fn, !.file = fl, !.line = n] :
        fn \in FunctionNames, fl \in FileNames \cup {<<>>}, n \in 1..MaxRelLine}
    \cup {[NoPoint EXCEPT !.function = fn, !.file = fl, !.offset = n] :
        fn \in FunctionNames, fl \in FileNames \cup {<<>>}, n \in 1..MaxOffset}
    \cup {[NoPoint EXCEPT !.function = fn, !.file = fl, !.lazy_line = LazyPattern] :
        fn \in FunctionNames, fl \in FileNames \cup {<<>>}}
    \cup {[NoPoint EXCEPT !.file = fl, !.line = n] : fl \in FileNames, n \in 1..MaxLine}
    \cup {[NoPoint EXCEPT !.file = fl, !.lazy_line = LazyPattern] : fl \in FileNames}

InitFinder ==
    /\ ParkedLL /\ ParkedTy /\ ParkedLo /\ ParkedX /\ Entered
    /\ pc = "cu_loop"
    /\ \E rq \in Points, args \in ArgLists, m \in 1..MaxTevs :
          pf = NewFinder([point |-> rq, args |-> args], m)

pp == pf.pev.point

this_cu == CUs[off]

Lines(cu) == IF Has(cu, "lines") THEN cu.lines ELSE <<>>

\* probe_point_search_cb's test: the first subprogram of the CU with the name
SearchFunction(cu, name) ==
    LET fs == Funcs(cu)
        hit == {k \in 1..Len(fs) : die_compare_name(fs[k], name) = 0}
    IN  IF hit = {} THEN NULL ELSE fs[CHOOSE k \in hit : \A j \in hit : k <= j]

\* all DIEs below a DIE, parents before children, siblings in order
RECURSIVE Walk(_, _)
Walk(siblings, k) ==
    IF k > Len(siblings) THEN <<>>
    ELSE <<siblings[k]>> \o Walk(Children(siblings[k]), 1) \o Walk(siblings, k + 1)

\* dwarf_func_inline_instances: the inlined_subroutine DIEs of the CU whose
\* origin is the function
InlineInstances(cu, name) ==
    SelectSeq(Walk(Children(cu), 1),
              LAMBDA d : d.tag = "DW_TAG_inlined_subroutine" /\ die_compare_name(d, name) = 0)

dwarf_func_inline(sp) == Has(sp, "inline") /\ sp.inline

Convert(sp, a, stale) ==
    convert_probe_point(this_cu, sp, a, stale, Cfi, pf.pev, pf.tevs, pf.max_tevs)

\* History of the call: overflow, a candidate site was found with max_tevs
\* events taken; first_err, the first negative value convert_probe_point
\* returned; after_err, the conversions started after that
History(r) ==
    /\ overflow' = (overflow \/ Len(pf.tevs) = pf.max_tevs)
    /\ first_err' = IF first_err = 0 /\ r.ret < 0 THEN r.ret ELSE first_err
    /\ after_err' = IF first_err # 0 THEN after_err + 1 ELSE after_err

InCU == pc = "cu_loop" /\ off <= Len(CUs) /\ ret >= 0

\* pf.fname for this CU (lines 1109-1112)
CuFname == IF pp.file # <<>> THEN cu_find_realpath(this_cu, pp.file) ELSE <<>>

Included == pp.file = <<>> \/ CuFname # <<>>

Found == SearchFunction(this_cu, pp.function)

\* The CU loop ends: line_list__free, dwarf_end and the return value
Return ==
    /\ pc = "cu_loop" /\ (off > Len(CUs) \/ ret < 0)
    /\ pf' = [pf EXCEPT !.lcache = line_list__free(pf.lcache)]
    /\ result' = IF ret < 0 THEN ret ELSE Len(pf.tevs)
    /\ pc' = "done"
    /\ UNCHANGED <<off, ret, retval, lret, lazy_sp, idx, inst, histvars, llvars, tyvars, lovars, xvars>>

\* The target file is not in this CU
SkipCU ==
    /\ InCU /\ ~Included
    /\ pf' = [pf EXCEPT !.fname = CuFname]
    /\ off' = off + 1
    /\ UNCHANGED <<ctlvars, histvars, llvars, tyvars, lovars, xvars>>

\* find_probe_point_by_func: no subprogram of the CU has the name
FuncNotFound ==
    /\ InCU /\ Included /\ pp.function # <<>> /\ IsNull(Found)
    /\ pf' = [pf EXCEPT !.fname = CuFname]
    /\ ret' = 0
    /\ off' = off + 1
    /\ UNCHANGED <<retval, lret, lazy_sp, idx, inst, pc, result, histvars, llvars, tyvars, lovars, xvars>>

\* probe_point_search_cb: function relative line
FuncByLine ==
    /\ InCU /\ Included /\ pp.function # <<>> /\ ~IsNull(Found)
    /\ pp.line # 0
    /\ pf' = [pf EXCEPT !.fname = Found.decl_file, !.lno = Found.decl_line + pp.line]
    /\ lret' = 0 /\ idx' = 1 /\ pc' = "by_line"
    /\ UNCHANGED <<off, ret, retval, lazy_sp, inst, result, histvars, llvars, tyvars, lovars, xvars>>

\* probe_point_search_cb: real function with a lazy pattern
FuncLazy ==
    /\ InCU /\ Included /\ pp.function # <<>> /\ ~IsNull(Found)
    /\ pp.line = 0 /\ ~dwarf_func_inline(Found) /\ pp.lazy_line # <<>>
    /\ pf' = [pf EXCEPT !.fname = Found.decl_file]
    /\ lazy_sp' = Found /\ inst' = 0 /\ pc' = "lazy"
    /\ UNCHANGED <<off, ret, retval, lret, idx, result, histvars, llvars, tyvars, lovars, xvars>>

\* probe_point_search_cb: real function, probe at entry pc + offset
FuncEntry ==
    /\ InCU /\ Included /\ pp.function # <<>> /\ ~IsNull(Found)
    /\ pp.line = 0 /\ ~dwarf_func_inline(Found) /\ pp.lazy_line = <<>>
    /\ IF ~HasEntryPc(Found)
       THEN /\ pf' = [pf EXCEPT !.fname = Found.decl_file]
            /\ ret' = -ENOENT /\ off' = off + 1
            /\ UNCHANGED <<pc, histvars>>
       ELSE \E stale \in StaleAttrs, a \in {Found.lowpc + pp.offset} :
            \E r \in {Convert(Found, a, stale)} :
               /\ pf' = [pf EXCEPT !.fname = Found.decl_file, !.addr = a, !.tevs = r.tevs]
               /\ History(r)
               /\ IF r.fault THEN pc' = "fault" /\ UNCHANGED <<ret, off>>
                  ELSE ret' = r.ret /\ off' = off + 1 /\ pc' = pc
    /\ UNCHANGED <<retval, lret, lazy_sp, idx, inst, result, llvars, tyvars, lovars, xvars>>

\* probe_point_search_cb: inlined function, search instances
FuncInline ==
    /\ InCU /\ Included /\ pp.function # <<>> /\ ~IsNull(Found)
    /\ pp.line = 0 /\ dwarf_func_inline(Found)
    /\ pf' = [pf EXCEPT !.fname = Found.decl_file]
    /\ retval' = 0 /\ inst' = 1 /\ pc' = "inline"
    /\ UNCHANGED <<off, ret, lret, lazy_sp, idx, result, histvars, llvars, tyvars, lovars, xvars>>

\* find_probe_point_lazy(NULL, &pf) for SRC;PTN
FileLazy ==
    /\ InCU /\ Included /\ pp.function = <<>> /\ pp.lazy_line # <<>>
    /\ pf' = [pf EXCEPT !.fname = CuFname]
    /\ lazy_sp' = NULL /\ inst' = 0 /\ pc' = "lazy"
    /\ UNCHANGED <<off, ret, retval, lret, idx, result, histvars, llvars, tyvars, lovars, xvars>>

\* find_probe_point_by_line for SRC:ALN
FileLine ==
    /\ InCU /\ Included /\ pp.function = <<>> /\ pp.lazy_line = <<>>
    /\ pf' = [pf EXCEPT !.fname = CuFname, !.lno = pp.line]
    /\ lret' = 0 /\ idx' = 1 /\ pc' = "by_line"
    /\ UNCHANGED <<off, ret, retval, lazy_sp, inst, result, histvars, llvars, tyvars, lovars, xvars>>

nlines == Len(Lines(this_cu))

cur_line == Lines(this_cu)[idx]

\* dwarf_getsrclines failed: -ENOENT before the loop
SrcLines(v) == IF Has(this_cu, "lines") THEN v ELSE -ENOENT

ByLineCandidate == cur_line.lineno = pf.lno /\ strtailcmp(cur_line.src, pf.fname) = 0

\* find_probe_point_by_line: a line that is not the target
ByLineSkip ==
    /\ pc = "by_line" /\ idx <= nlines /\ lret = 0 /\ ~ByLineCandidate
    /\ idx' = idx + 1
    /\ UNCHANGED <<pfvars, ret, retval, lret, lazy_sp, inst, pc, result, histvars,
                   llvars, tyvars, lovars, xvars>>

\* find_probe_point_by_line: convert_probe_point(NULL, pf) at the line address
ByLineConvert ==
    /\ pc = "by_line" /\ idx <= nlines /\ lret = 0 /\ ByLineCandidate
    /\ \E stale \in StaleAttrs :
          \E r \in {Convert(NULL, cur_line.addr, stale)} :
          /\ pf' = [pf EXCEPT !.addr = cur_line.addr, !.tevs = r.tevs]
          /\ History(r)
          /\ IF r.fault THEN pc' = "fault" /\ UNCHANGED <<lret, idx>>
             ELSE lret' = r.ret /\ idx' = idx + 1 /\ pc' = pc
    /\ UNCHANGED <<off, ret, retval, lazy_sp, inst, result, llvars, tyvars, lovars, xvars>>

\* find_probe_point_by_line returns to the CU loop
ByLineEnd ==
    /\ pc = "by_line" /\ (idx > nlines \/ lret # 0)
    /\ ret' = SrcLines(lret)
    /\ off' = off + 1
    /\ pc' = "cu_loop"
    /\ UNCHANGED <<pf, retval, lret, lazy_sp, idx, inst, result, histvars,
                   llvars, tyvars, lovars, xvars>>

Matched == find_lazy_match_lines(pf.lcache, pf.fname, pp.lazy_line)

\* the test turned round
list_empty_inverted(head) == head # <<>>

list_empty(head) == head = <<>>

\* find_probe_point_lazy hands its value to its caller: probe_point_inline_cb
\* stores it and returns DWARF_CB_OK, the other callers store it in ret
LazyReturn(v) ==
    /\ IF inst # 0
       THEN retval' = v /\ inst' = inst + 1 /\ pc' = "inline" /\ UNCHANGED <<ret, off>>
       ELSE ret' = v /\ off' = off + 1 /\ pc' = "cu_loop" /\ UNCHANGED <<retval, inst>>

\* find_probe_point_lazy: fill the line cache if it is empty, enter the loop
LazyBegin ==
    /\ pc = "lazy" /\ (list_empty(pf.lcache) => Matched.ret > 0)
    /\ pf' = IF list_empty(pf.lcache) THEN [pf EXCEPT !.lcache = Matched.list] ELSE pf
    /\ lret' = IF list_empty(pf.lcache) THEN Matched.ret ELSE 0
    /\ idx' = 1
    /\ pc' = "lazy_loop"
    /\ UNCHANGED <<off, ret, retval, lazy_sp, inst, result, histvars, llvars, tyvars, lovars, xvars>>

\* find_probe_point_lazy: no matched line, or the source file is unreadable
LazyNoLines ==
    /\ pc = "lazy" /\ list_empty(pf.lcache) /\ Matched.ret <= 0
    /\ pf' = [pf EXCEPT !.lcache = Matched.list]
    /\ LazyReturn(Matched.ret)
    /\ UNCHANGED <<lret, lazy_sp, idx, result, histvars, llvars, tyvars, lovars, xvars>>

LazyCandidate ==
    /\ line_list__has_line(pf.lcache, cur_line.lineno) # 0
    /\ strtailcmp(cur_line.src, pf.fname) = 0
    /\ IsNull(lazy_sp)
       \/ (dwarf_haspc(lazy_sp, cur_line.addr) /\ IsNull(die_find_inlinefunc(lazy_sp, cur_line.addr)))

\* find_probe_point_lazy: a line that is filtered out
LazySkip ==
    /\ pc = "lazy_loop" /\ idx <= nlines /\ lret >= 0 /\ ~LazyCandidate
    /\ idx' = idx + 1
    /\ UNCHANGED <<pfvars, ret, retval, lret, lazy_sp, inst, pc, result, histvars,
                   llvars, tyvars, lovars, xvars>>

\* find_probe_point_lazy: convert_probe_point(sp_die, pf) at the line address
LazyConvert ==
    /\ pc = "lazy_loop" /\ idx <= nlines /\ lret >= 0 /\ LazyCandidate
    /\ \E stale \in StaleAttrs :
          \E r \in {Convert(lazy_sp, cur_line.addr, stale)} :
          /\ pf' = [pf EXCEPT !.addr = cur_line.addr, !.tevs = r.tevs]
          /\ History(r)
          /\ IF r.fault THEN pc' = "fault" /\ UNCHANGED <<lret, idx>>
             ELSE lret' = r.ret /\ idx' = idx + 1 /\ pc' = pc
    /\ UNCHANGED <<off, ret, retval, lazy_sp, inst, result, llvars, tyvars, lovars, xvars>>

\* find_probe_point_lazy returns
LazyEnd ==
    /\ pc = "lazy_loop" /\ (idx > nlines \/ lret < 0)
    /\ LazyReturn(SrcLines(lret))
    /\ UNCHANGED <<pf, lret, lazy_sp, idx, result, histvars, llvars, tyvars, lovars, xvars>>

Instances == InlineInstances(this_cu, pp.function)

\* dwarf_func_inline_instances goes on while the callback returns DWARF_CB_OK
InlineGoesOn == inst <= Len(Instances) /\ (pp.lazy_line = <<>> => retval >= 0)

\* probe_point_inline_cb with a lazy pattern
InlineLazy ==
    /\ pc = "inline" /\ InlineGoesOn /\ pp.lazy_line # <<>>
    /\ lazy_sp' = Instances[inst]
    /\ pc' = "lazy"
    /\ UNCHANGED <<pfvars, ret, retval, lret, idx, inst, result, histvars, llvars, tyvars, lovars, xvars>>

\* probe_point_inline_cb: probe at the entry pc of the instance + offset
InlineConvert ==
    /\ pc = "inline" /\ InlineGoesOn /\ pp.lazy_line = <<>>
    /\ IF ~HasEntryPc(Instances[inst])
       THEN /\ retval' = -ENOENT /\ inst' = inst + 1
            /\ UNCHANGED <<pf, pc, histvars>>
       ELSE \E stale \in StaleAttrs, a \in {Instances[inst].lowpc + pp.offset} :
            \E r \in {Convert(Instances[inst], a, stale)} :
               /\ pf' = [pf EXCEPT !.addr = a, !.tevs = r.tevs]
               /\ History(r)
               /\ IF r.fault THEN pc' = "fault" /\ UNCHANGED <<retval, inst>>
                  ELSE retval' = r.ret /\ inst' = inst + 1 /\ pc' = pc
    /\ UNCHANGED <<off, ret, lret, lazy_sp, idx, result, llvars, tyvars, lovars, xvars>>

\* probe_point_search_cb: param->retval = _param.retval, back to the CU loop
InlineEnd ==
    /\ pc = "inline" /\ ~InlineGoesOn
    /\ ret' = retval
    /\ off' = off + 1
    /\ pc' = "cu_loop"
    /\ UNCHANGED <<pf, retval, lret, lazy_sp, idx, inst, result, histvars, llvars, tyvars, lovars, xvars>>

Next ==
    \/ Return \/ SkipCU
    \/ FuncNotFound \/ FuncByLine \/ FuncLazy \/ FuncEntry \/ FuncInline
    \/ FileLazy \/ FileLine
    \/ ByLineSkip \/ ByLineConvert \/ ByLineEnd
    \/ LazyBegin \/ LazyNoLines \/ LazySkip \/ LazyConvert \/ LazyEnd
    \/ InlineLazy \/ InlineConvert \/ InlineEnd

Spec == InitFinder /\ [][Next]_vars

-----------------------------------------------------------------------------
(* find_perf_probe_point: reverse search *)

EBADF == 9

MaxLookupAddr == 20

Path_c == <<"/", "k", "/", "c", ".", "c">>

\* m, a subprogram without DW_AT_decl_line: [14, 17)
Func_m ==
    [tag |-> "DW_TAG_subprogram", name |-> <<"m">>, decl_file |-> Path_c,
     lowpc |-> 14, highpc |-> 17]

\* n: [17, 19), g inlined at its entry, [17, 18)
Func_n ==
    [tag |-> "DW_TAG_subprogram", name |-> <<"n">>, decl_file |-> Path_c, decl_line |-> 5,
     lowpc |-> 17, highpc |-> 19, children |-> <<InlinedG(17, 18, 0)>>]

\* a third CU, [14, 20): no line entry for 16, nothing at all at 19
CU_c ==
    [tag |-> "DW_TAG_compile_unit", name |-> Path_c, files |-> <<Path_c, Path_a>>,
     lowpc |-> 14, highpc |-> 20,
     lines |-> <<Line(2, Path_c, 14), Line(3, Path_c, 15), Line(7, Path_a, 17),
                 Line(6, Path_c, 18)>>,
     children |-> <<Func_m, Func_g, Func_n>>]

\* the debug information behind fd
Dbg == CUs \o <<CU_c>>

\* dwarf_addrdie: the CU whose address ranges hold addr
dwarf_addrdie(dbg, addr) ==
    LET Covers(cu) ==
            IF Has(cu, "lowpc") THEN dwarf_haspc(cu, addr)
            ELSE \E k \in 1..Len(Funcs(cu)) : dwarf_haspc(Funcs(cu)[k], addr)
        hit == {i \in 1..Len(dbg) : Covers(dbg[i])}
    IN  IF hit = {} THEN NULL ELSE dbg[CHOOSE i \in hit : \A j \in hit : i <= j]

\* dwarf_getsrc_die: the line record at addr or the closest one below it
dwarf_getsrc_die(cu, addr) ==
    LET below == {k \in 1..Len(cu.lines) : cu.lines[k].addr <= addr} IN
    IF below = {} THEN NULL
    ELSE cu.lines[CHOOSE k \in below : \A j \in below : cu.lines[j].addr <= cu.lines[k].addr]

\* dwarf_decl_line: DW_AT_decl_line of the DIE or of its abstract origin
dwarf_decl_line(cu, die) ==
    LET origin == IF die.tag = "DW_TAG_inlined_subroutine" /\ Has(die, "name")
                  THEN SearchFunction(cu, die.name) ELSE NULL
    IN  IF Has(die, "decl_line") THEN [ret |-> 0, lineno |-> die.decl_line]
        ELSE IF Has(origin, "decl_line") THEN [ret |-> 0, lineno |-> origin.decl_line]
        ELSE [ret |-> -1, lineno |-> 0]

\* a zeroed struct perf_probe_point
NoPpt == [file |-> <<>>, line |-> 0, function |-> <<>>, offset |-> 0]

LookupResult(r, found, ppt) ==
    [ret |-> IF r >= 0 THEN (IF found THEN 1 ELSE 0) ELSE r, found |-> found, ppt |-> ppt]

\* a reverse search that gives up without covering CU, finding nothing
find_perf_probe_point_nocu(dbg, opened, addr, file_ok, function_ok) ==
    IF IsNull(dwarf_addrdie(dbg, addr)) THEN LookupResult(0, FALSE, NoPpt)
    ELSE LookupResult(0, TRUE, [NoPpt EXCEPT !.function = <<"f">>, !.offset = addr])

\* Reverse search: file_ok and function_ok are the outcomes of the two strdup
find_perf_probe_point(dbg, opened, addr, file_ok, function_ok) ==
    LET Named(ppt, found, tmp, r) ==
            IF function_ok
            THEN LookupResult(r, TRUE, [ppt EXCEPT !.function = tmp])
            ELSE LookupResult(-ENOMEM, found, ppt)
        Relative(ppt, found, tmp, eaddr, dl) ==
            IF dl.ret = 0
            THEN Named([ppt EXCEPT !.line = @ - dl.lineno], found, tmp, 0)
            ELSE Named([ppt EXCEPT !.offset = addr - eaddr], found, tmp, dl.ret)
        InFunction(cudie, spdie, indie, ppt, found) ==
            IF ~Has(spdie, "name") \/ ~HasEntryPc(spdie) THEN LookupResult(0, found, ppt)
            ELSE IF ppt.line = 0
            THEN Named([ppt EXCEPT !.offset = addr - spdie.lowpc], found, spdie.name, 0)
            ELSE IF ~IsNull(indie)
            THEN (IF ~Has(indie, "name") THEN LookupResult(0, found, ppt)
                  ELSE Relative(ppt, found, indie.name, spdie.lowpc,
                                dwarf_decl_line(cudie, indie)))
            ELSE IF spdie.lowpc = addr
            THEN Relative(ppt, found, spdie.name, spdie.lowpc,
                          [ret |-> 0, lineno |-> ppt.line])
            ELSE Relative(ppt, found, spdie.name, spdie.lowpc,
                          dwarf_decl_line(cudie, spdie))
        Functioned(cudie, spdie, ppt, found) ==
            IF IsNull(spdie) THEN LookupResult(0, found, ppt)
            ELSE InFunction(cudie, spdie, die_find_inlinefunc(spdie, addr), ppt, found)
        Lined(cudie, line) ==
            IF line # NULL /\ line.addr = addr
            THEN (IF file_ok
                  THEN Functioned(cudie, die_find_real_subprogram(cudie, addr),
                                  [NoPpt EXCEPT !.line = line.lineno, !.file = line.src],
                                  TRUE)
                  ELSE LookupResult(-ENOMEM, FALSE, [NoPpt EXCEPT !.line = line.lineno]))
            ELSE Functioned(cudie, die_find_real_subprogram(cudie, addr), NoPpt, FALSE)
        InCu(cudie) ==
            IF IsNull(cudie) THEN LookupResult(-EINVAL, FALSE, NoPpt)
            ELSE Lined(cudie, dwarf_getsrc_die(cudie, addr))
    IN  IF ~opened THEN [ret |-> -EBADF, found |-> FALSE, ppt |-> NoPpt]
        ELSE InCu(dwarf_addrdie(dbg, addr))

\* probe_point_search_cb at the entry of a real function: the events the
\* CUs of dbg give for the function name alone
EntryEvents(dbg, name) ==
    LET AtEntry(cu, sp, stale) ==
            convert_probe_point(cu, sp, sp.lowpc, stale, Cfi,
                                [point |-> [NoPoint EXCEPT !.function = name],
                                 args |-> <<>>], <<>>, 1)
        real == {i \in 1..Len(dbg) :
                    /\ ~IsNull(SearchFunction(dbg[i], name))
                    /\ ~dwarf_func_inline(SearchFunction(dbg[i], name))
                    /\ HasEntryPc(SearchFunction(dbg[i], name))}
    IN  {r.tevs[1] : r \in {q \in {AtEntry(dbg[i], SearchFunction(dbg[i], name), stale) :
                                      i \in real, stale \in StaleAttrs} : q.ret = 0}}

InitLookup ==
    /\ ParkedLL /\ ParkedTy /\ ParkedLo /\ ParkedPf
    /\ ParkedGp /\ ParkedTc /\ ParkedLf /\ ParkedFw
    /\ \E addr \in 0..MaxLookupAddr, opened \in BOOLEAN,
          file_ok \in BOOLEAN, function_ok \in BOOLEAN :
          rl = [called |-> TRUE, addr |-> addr, opened |-> opened, file_ok |-> file_ok,
                function_ok |-> function_ok, done |-> FALSE,
                ret |-> 0, found |-> FALSE, ppt |-> NoPpt]

ReverseLookup ==
    /\ rl.called /\ ~rl.done
    /\ \E r \in {find_perf_probe_point(Dbg, rl.opened, rl.addr, rl.file_ok, rl.function_ok)} :
          rl' = [rl EXCEPT !.done = TRUE, !.ret = r.ret, !.found = r.found, !.ppt = r.ppt]
    /\ UNCHANGED <<llvars, tyvars, lovars, fvars, gp, tc, lf, fw>>

SpecLookup == InitLookup /\ [][ReverseLookup]_vars

-----------------------------------------------------------------------------
(* find_line_range *)

INT_MAX == 2147483647

MaxStart == 2

\* the source files access() finds readable
Readable == {Path_a, Path_b, Path_c}

\* get_real_path without a source prefix: new_path <<>> is NULL
get_real_path(raw_path) ==
    IF raw_path \in Readable THEN [ret |-> 0, new_path |-> raw_path]
    ELSE [ret |-> -ENOENT, new_path |-> <<>>]

\* dwarf_decl_file: DW_AT_decl_file of the DIE or of its abstract origin, <<>> is NULL
dwarf_decl_file(cu, die) ==
    LET origin == IF die.tag = "DW_TAG_inlined_subroutine" /\ Has(die, "name")
                  THEN SearchFunction(cu, die.name) ELSE NULL
    IN  IF Has(die, "decl_file") THEN die.decl_file
        ELSE IF Has(origin, "decl_file") THEN origin.decl_file
        ELSE <<>>

\* Add a line and store the src path
line_range_add_line(src, lineno, lr) ==
    LET Add(with_path) ==
            [ret |-> line_list__add_line(with_path.line_list, lineno, TRUE).ret,
             lr |-> [with_path EXCEPT !.line_list =
                        line_list__add_line(with_path.line_list, lineno, TRUE).list]]
        Real(g) == IF g.ret # 0 THEN [ret |-> g.ret, lr |-> lr]
                   ELSE Add([lr EXCEPT !.path = g.new_path])
    IN  IF lr.path = <<>> THEN Real(get_real_path(src)) ELSE Add(lr)

\* a range that leaves its first line out
InRange_after(f, lineno) == f.lno_s < lineno /\ lineno <= f.lno_e

\* lf->lno_s <= lineno <= lf->lno_e
InRange(f, lineno) == f.lno_s <= lineno /\ lineno <= f.lno_e

\* Search function declaration lines: dwarf_getfuncs with
\* line_range_funcdecl_cb from the k-th function on, retval so far
RECURSIVE find_line_range_func_decl_lines(_, _, _, _)
find_line_range_func_decl_lines(cu, f, k, rv) ==
    LET sp == Funcs(cu)[k]
        Added(a) == IF a.ret < 0 THEN [ret |-> a.ret, lr |-> a.lr]
                    ELSE find_line_range_func_decl_lines(cu, [f EXCEPT !.lr = a.lr],
                                                         k + 1, a.ret)
        Declared(src, dl) ==
            IF src # <<>> /\ strtailcmp(src, f.fname) # 0
            THEN find_line_range_func_decl_lines(cu, f, k + 1, rv)
            ELSE IF dl.ret # 0 \/ ~InRange(f, dl.lineno)
            THEN find_line_range_func_decl_lines(cu, f, k + 1, rv)
            ELSE Added(line_range_add_line(src, dl.lineno, f.lr))
    IN  IF k > Len(Funcs(cu)) THEN [ret |-> rv, lr |-> f.lr]
        ELSE Declared(dwarf_decl_file(cu, sp), dwarf_decl_line(cu, sp))

\* find_line_range_by_line: search probable lines on lines list, from the
\* i-th line record on
RECURSIVE ScanLineRange(_, _, _, _)
ScanLineRange(cu, sp_die, f, i) ==
    LET l == cu.lines[i]
        Added(a) == IF a.ret < 0 THEN [ret |-> a.ret, lr |-> a.lr]
                    ELSE ScanLineRange(cu, sp_die, [f EXCEPT !.lr = a.lr], i + 1)
    IN  IF i > Len(cu.lines) THEN [ret |-> 0, lr |-> f.lr]
        ELSE IF ~InRange(f, l.lineno) THEN ScanLineRange(cu, sp_die, f, i + 1)
        ELSE IF ~IsNull(sp_die) /\ ~dwarf_haspc(sp_die, l.addr)
        THEN ScanLineRange(cu, sp_die, f, i + 1)
        ELSE IF ~IsNull(sp_die) /\ ~IsNull(die_find_inlinefunc(sp_die, l.addr))
        THEN ScanLineRange(cu, sp_die, f, i + 1)
        ELSE IF strtailcmp(l.src, f.fname) # 0 THEN ScanLineRange(cu, sp_die, f, i + 1)
        ELSE Added(line_range_add_line(l.src, l.lineno, f.lr))

\* Find line range from its line number
find_line_range_by_line(cu, sp_die, f0) ==
    LET Status(r) ==
            IF r.ret >= 0
            THEN (IF ~list_empty(r.lr.line_list)
                  THEN [ret |-> 1, lf |-> [f0 EXCEPT !.lr = r.lr, !.found = 1]]
                  ELSE [ret |-> 0, lf |-> [f0 EXCEPT !.lr = r.lr]])
            ELSE [ret |-> r.ret, lf |-> [f0 EXCEPT !.lr = [r.lr EXCEPT !.path = <<>>]]]
        Declared(r, src, dl) ==
            IF src # <<>> /\ dl.ret = 0 /\ InRange(f0, dl.lineno)
            THEN Status(line_range_add_line(src, dl.lineno, r.lr))
            ELSE Status(r)
        Scanned(r) ==
            IF r.ret < 0 THEN Status(r)
            ELSE IF ~IsNull(sp_die)
            THEN Declared(r, dwarf_decl_file(cu, sp_die), dwarf_decl_line(cu, sp_die))
            ELSE Status(find_line_range_func_decl_lines(cu, [f0 EXCEPT !.lr = r.lr], 1, 0))
    IN  IF ~Has(cu, "lines") THEN [ret |-> -ENOENT, lf |-> f0]
        ELSE Scanned(ScanLineRange(cu, sp_die,
                                   [f0 EXCEPT !.lr.line_list = line_list__init], 1))

\* lr->offset + n, INT_MAX on overflow
LineSum(offset, n) == IF n > INT_MAX - offset THEN INT_MAX ELSE offset + n

\* find_line_range_by_func: dwarf_getfuncs with line_range_search_cb
find_line_range_by_func(cu, f0) ==
    LET Ranged(sp_die, dl) ==
            LET offset == IF dl.ret = 0 THEN dl.lineno ELSE f0.lr.offset
                lno_s == LineSum(offset, f0.lr.start)
                lno_e == LineSum(offset, f0.lr.end)
            IN  [f0 EXCEPT !.fname = dwarf_decl_file(cu, sp_die), !.lno_s = lno_s,
                           !.lno_e = lno_e, !.lr.offset = offset,
                           !.lr.start = lno_s, !.lr.end = lno_e]
        Search(sp_die, f1, instances) ==
            IF ~dwarf_func_inline(sp_die) THEN find_line_range_by_line(cu, sp_die, f1)
            ELSE IF instances = <<>> THEN [ret |-> 0, lf |-> f1]
            ELSE find_line_range_by_line(cu, instances[1], f1)
        Hit(sp_die) ==
            IF IsNull(sp_die) THEN [ret |-> 0, lf |-> f0]
            ELSE Search(sp_die, Ranged(sp_die, dwarf_decl_line(cu, sp_die)),
                        InlineInstances(cu, f0.lr.function))
    IN  Hit(SearchFunction(cu, f0.lr.function))

\* struct line_range as the caller sets it up
NewRange(function, file, start, end) ==
    [function |-> function, file |-> file, start |-> start, end |-> end,
     offset |-> 0, path |-> <<>>, line_list |-> line_list__init]

LineRanges ==
    {NewRange(fn, fl, st, en) :
        fn \in {<<"f">>, <<"g">>, <<"h">>, <<"k">>, <<"m">>, <<"n">>, <<"z">>},
        fl \in FileNames \cup {<<>>}, st \in 0..MaxStart, en \in {MaxStart, INT_MAX}}
    \cup {NewRange(<<>>, fl, st, en) :
             fl \in FileNames, st \in 1..MaxLine, en \in {MaxLine - 1, MaxLine + 2, INT_MAX}}

\* struct line_finder lf = {.lr = lr, .found = 0}; `request` keeps lr as it
\* was handed in, `yields` the length of the list after each CU visited
InitRange ==
    /\ ParkedLL /\ ParkedTy /\ ParkedLo /\ ParkedPf
    /\ ParkedGp /\ ParkedTc /\ ParkedRl /\ ParkedFw
    /\ \E lr \in LineRanges :
          lf = [called |-> TRUE, at |-> "cu_loop", lr |-> lr, request |-> lr, found |-> 0,
                fname |-> <<>>, lno_s |-> 0, lno_e |-> 0, ret |-> 0, off |-> 1,
                yields |-> <<>>, sp |-> NULL, result |-> 0]

RangeCU == Dbg[lf.off]

InRangeLoop ==
    lf.called /\ lf.at = "cu_loop" /\ lf.found = 0 /\ lf.ret >= 0 /\ lf.off <= Len(Dbg)

RangeFname == IF lf.lr.file # <<>> THEN cu_find_realpath(RangeCU, lf.lr.file) ELSE <<>>

\* the target file is not included in this CU
RangeSkipCU ==
    /\ InRangeLoop /\ lf.lr.file # <<>> /\ RangeFname = <<>>
    /\ lf' = [lf EXCEPT !.fname = <<>>, !.off = @ + 1,
                        !.yields = Append(@, Len(lf.lr.line_list))]
    /\ UNCHANGED <<llvars, tyvars, lovars, fvars, gp, tc, rl, fw>>

RangeByFunc ==
    /\ InRangeLoop /\ (lf.lr.file = <<>> \/ RangeFname # <<>>) /\ lf.lr.function # <<>>
    /\ \E r \in {find_line_range_by_func(RangeCU, [lf EXCEPT !.fname = RangeFname])} :
          lf' = [r.lf EXCEPT !.ret = r.ret, !.off = @ + 1,
                             !.sp = SearchFunction(RangeCU, lf.lr.function),
                             !.yields = Append(@, Len(r.lf.lr.line_list))]
    /\ UNCHANGED <<llvars, tyvars, lovars, fvars, gp, tc, rl, fw>>

RangeByLine ==
    /\ InRangeLoop /\ RangeFname # <<>> /\ lf.lr.function = <<>>
    /\ \E r \in {find_line_range_by_line(RangeCU, NULL,
                    [lf EXCEPT !.fname = RangeFname, !.lno_s = lf.lr.start,
                               !.lno_e = lf.lr.end])} :
          lf' = [r.lf EXCEPT !.ret = r.ret, !.off = @ + 1,
                             !.yields = Append(@, Len(r.lf.lr.line_list))]
    /\ UNCHANGED <<llvars, tyvars, lovars, fvars, gp, tc, rl, fw>>

\* the CU loop ends: return (ret < 0) ? ret : lf.found
RangeReturn ==
    /\ lf.called /\ lf.at = "cu_loop"
    /\ lf.found # 0 \/ lf.ret < 0 \/ lf.off > Len(Dbg)
    /\ lf' = [lf EXCEPT !.at = "done", !.result = IF lf.ret < 0 THEN lf.ret ELSE lf.found]
    /\ UNCHANGED <<llvars, tyvars, lovars, fvars, gp, tc, rl, fw>>

NextRange == RangeSkipCU \/ RangeByFunc \/ RangeByLine \/ RangeReturn

SpecRange == InitRange /\ [][NextRange]_vars

-----------------------------------------------------------------------------
(* convert_variable_fields, one field at a time *)

MaxFields == 2

\* struct C { int pad; int c; }
StructC ==
    [tag |-> "DW_TAG_structure_type", name |-> <<"C">>, byte_size |-> 8,
     children |-> <<Member(<<"c">>, IntType, 4)>>]

\* struct A { int x; struct C *b; }
StructA ==
    [tag |-> "DW_TAG_structure_type", name |-> <<"A">>, byte_size |-> 16,
     children |-> <<Member(<<"x">>, IntType, 0), Member(<<"b">>, PointerTo(StructC), 8)>>]

\* struct P { int k; struct A a; }
StructP ==
    [tag |-> "DW_TAG_structure_type", name |-> <<"P">>, byte_size |-> 32,
     children |-> <<Member(<<"k">>, IntType, 0), Member(<<"a">>, StructA, 16)>>]

\* the variables the fields are applied to: struct P *, struct P, int [],
\* struct A [], int, void *, int *, const struct P * behind a typedef
FieldVariables ==
    {[tag |-> "DW_TAG_variable", name |-> <<"v">>, type |-> t] :
        t \in {PointerTo(StructP), StructP, ArrayOf(IntType), ArrayOf(StructA), IntType,
               [tag |-> "DW_TAG_pointer_type", byte_size |-> 8], PointerTo(IntType),
               Wrap("DW_TAG_typedef", PointerTo(Wrap("DW_TAG_const_type", StructP)))}}

FieldSteps ==
    {Field(n, r) : n \in {<<"a">>, <<"b">>, <<"c">>, <<"z">>}, r \in BOOLEAN}
    \cup {Index(n) : n \in 1..2}

\* ->a.b->c
ArrowDotArrow == <<Field(<<"a">>, TRUE), Field(<<"b">>, FALSE), Field(<<"c">>, TRUE)>>

FieldLists == UNION {[1..n -> FieldSteps] : n \in 1..MaxFields} \cup {ArrowDotArrow}

\* *ref_ptr as convert_variable_location left it: NULL, or one reference
InitFields ==
    /\ ParkedLL /\ ParkedTy /\ ParkedLo /\ ParkedPf
    /\ ParkedGp /\ ParkedTc /\ ParkedRl /\ ParkedLf
    /\ \E v \in FieldVariables, field \in FieldLists,
          ref \in {<<>>} \cup {<<o>> : o \in 0..MaxOffs} :
          fw = [called |-> TRUE, at |-> "walk", var |-> v, field |-> field, first |-> ref,
                vr_die |-> v, k |-> 1, ref |-> ref, ret |-> 0,
                on |-> NULL, was |-> <<>>]

\* the DIE the next call is given: the array or pointer type saved for the
\* next field, or the member found
NextDie(vr_die, f, r) ==
    IF f.name[1] = "[" /\ die_get_real_type(vr_die).tag
                             \in {"DW_TAG_array_type", "DW_TAG_pointer_type"}
    THEN die_get_real_type(vr_die)
    ELSE r.die_mem

\* one call of convert_variable_fields: the field is converted
ConvertField ==
    /\ fw.called /\ fw.at = "walk"
    /\ \E r \in {convert_variable_fields(fw.vr_die, <<fw.field[fw.k]>>, 1, fw.ref)} :
          /\ ~r.fault /\ r.ret = 0
          /\ fw' = [fw EXCEPT !.ref = r.ref, !.on = fw.vr_die, !.was = fw.ref,
                              !.vr_die = NextDie(fw.vr_die, fw.field[fw.k], r),
                              !.k = @ + 1,
                              !.at = IF fw.k = Len(fw.field) THEN "done" ELSE "walk"]
    /\ UNCHANGED <<llvars, tyvars, lovars, fvars, gp, tc, rl, lf>>

\* one call of convert_variable_fields: the field is rejected
RejectField ==
    /\ fw.called /\ fw.at = "walk"
    /\ \E r \in {convert_variable_fields(fw.vr_die, <<fw.field[fw.k]>>, 1, fw.ref)} :
          /\ ~r.fault /\ r.ret # 0
          /\ fw' = [fw EXCEPT !.ret = r.ret, !.ref = r.ref, !.on = fw.vr_die,
                              !.was = fw.ref, !.k = @ + 1, !.at = "failed"]
    /\ UNCHANGED <<llvars, tyvars, lovars, fvars, gp, tc, rl, lf>>

\* one call of convert_variable_fields: ref->offset is written through a
\* NULL ref
FaultField ==
    /\ fw.called /\ fw.at = "walk"
    /\ \E r \in {convert_variable_fields(fw.vr_die, <<fw.field[fw.k]>>, 1, fw.ref)} :
          /\ r.fault
          /\ fw' = [fw EXCEPT !.on = fw.vr_die, !.was = fw.ref, !.k = @ + 1,
                              !.at = "fault"]
    /\ UNCHANGED <<llvars, tyvars, lovars, fvars, gp, tc, rl, lf>>

NextFields == ConvertField \/ RejectField \/ FaultField

SpecFields == InitFields /\ [][NextFields]_vars

-----------------------------------------------------------------------------
(* get_real_path *)

EACCES == 13
EROFS == 30
EFAULT == 14
ENAMETOOLONG == 36

MaxPathLen == 5

\* the errno values for which the leading directory is chopped off
RetryErrnos == {ENAMETOOLONG, ENOENT, EROFS, EFAULT}

\* what access(path, R_OK) may leave in errno (0: it returned 0)
AccessErrnos == {0, EACCES} \cup RetryErrnos

\* strchr(s, c): the rest of s from the first c on, <<>> (NULL) without one
strchr(s, c) ==
    LET hit == {k \in 1..Len(s) : s[k] = c} IN
    IF hit = {} THEN <<>>
    ELSE SubSeq(s, CHOOSE k \in hit : \A j \in hit : k <= j, Len(s))

\* a chop that leaves raw_path where it is
ChopNothing(raw_path) == raw_path

\* raw_path = strchr(++raw_path, '/')
ChopLeadingDirectory(raw_path) == strchr(Tail(raw_path), "/")

source_prefix == <<"/", "p">>

RawPaths == UNION {[1..n -> {"/", "a"}] : n \in 1..MaxPathLen}

InitPath ==
    /\ ParkedLL /\ ParkedTy /\ ParkedLo /\ ParkedPf
    /\ ParkedTc /\ ParkedRl /\ ParkedLf /\ ParkedFw
    /\ \E raw_path \in RawPaths, prefixed \in BOOLEAN :
          gp = [called |-> TRUE, raw_path |-> raw_path, prefixed |-> prefixed,
                at |-> "access", errno |-> 0, tried |-> 0, new_path |-> <<>>, ret |-> 0]

\* !symbol_conf.source_prefix: one access() of raw_path decides
AccessRawPath ==
    /\ gp.called /\ gp.at = "access" /\ ~gp.prefixed
    /\ \E errno \in AccessErrnos :
          gp' = [gp EXCEPT !.at = "done", !.errno = errno, !.tried = @ + 1,
                           !.new_path = IF errno = 0 THEN gp.raw_path ELSE <<>>,
                           !.ret = -errno]
    /\ UNCHANGED <<llvars, tyvars, lovars, fvars, tc, rl, lf, fw>>

\* one turn of the for (;;) loop: sprintf, access, switch (errno)
AccessPrefixedPath ==
    /\ gp.called /\ gp.at = "access" /\ gp.prefixed
    /\ \E errno \in AccessErrnos : \E rest \in {ChopLeadingDirectory(gp.raw_path)} :
          gp' = IF errno = 0
                THEN [gp EXCEPT !.at = "done", !.errno = 0, !.tried = @ + 1, !.ret = 0,
                                !.new_path = source_prefix \o <<"/">> \o gp.raw_path]
                ELSE IF errno \notin RetryErrnos
                THEN [gp EXCEPT !.at = "done", !.errno = errno, !.tried = @ + 1,
                                !.ret = -errno, !.new_path = <<>>]
                ELSE IF rest = <<>>
                THEN [gp EXCEPT !.at = "done", !.errno = errno, !.tried = @ + 1,
                                !.ret = -ENOENT, !.new_path = <<>>, !.raw_path = rest]
                ELSE [gp EXCEPT !.errno = errno, !.tried = @ + 1, !.raw_path = rest]
    /\ UNCHANGED <<llvars, tyvars, lovars, fvars, tc, rl, lf, fw>>

NextPath == AccessRawPath \/ AccessPrefixedPath

\* the loop runs on as long as it can: access() returns
SpecPath == InitPath /\ [][NextPath]_vars /\ WF_vars(NextPath)

-----------------------------------------------------------------------------
(* strtailcmp *)

MaxNameLen == 3

PathNames == UNION {[1..n -> {"/", "a"}] : n \in 0..MaxNameLen}

InitTail ==
    /\ ParkedLL /\ ParkedTy /\ ParkedLo /\ ParkedPf
    /\ ParkedGp /\ ParkedRl /\ ParkedLf /\ ParkedFw
    /\ \E s1 \in PathNames, s2 \in PathNames :
          tc = [called |-> TRUE, s1 |-> s1, s2 |-> s2, done |-> FALSE, ret |-> 0]

CompareTails ==
    /\ tc.called /\ ~tc.done
    /\ tc' = [tc EXCEPT !.done = TRUE, !.ret = strtailcmp(tc.s1, tc.s2)]
    /\ UNCHANGED <<llvars, tyvars, lovars, fvars, gp, rl, lf, fw>>

SpecTail == InitTail /\ [][CompareTails]_vars

-----------------------------------------------------------------------------
(* Properties *)

Events == {pf.tevs[k] : k \in 1..Len(pf.tevs)}

Returned == pc = "done"

\* C1: the events taken never exceed max_tevs, and a call in which a
\* candidate site was found with max_tevs events already taken returns
\* -ERANGE, whatever the kind of probe point.
C1_MaxProbes ==
    /\ Len(pf.tevs) <= pf.max_tevs
    /\ Returned /\ overflow => result = -ERANGE

\* C2: once convert_probe_point has returned a negative value no further
\* site is converted, and the call returns that value.
C2_ErrorStopsTheCall ==
    /\ after_err = 0
    /\ Returned /\ first_err < 0 => result = first_err

\* C3: a non-negative return value is the number of event records, each of
\* them converted to the end (probe point and every argument), and it is 0
\* when no site matched.
C3_ReturnCountsCompleteEvents ==
    Returned /\ result >= 0 =>
        /\ result = Len(pf.tevs)
        /\ \A tev \in Events : tev.done

\* C4: every converted event put in a named subprogram of known size has
\* 0 <= offset < size of the subprogram.
C4_OffsetWithinSubprogram ==
    \A tev \in Events :
        tev.done /\ tev.symbol # <<>> /\ Has(tev.sp, "highpc") =>
            tev.offset >= 0 /\ tev.offset < tev.sp.highpc - tev.sp.lowpc

\* The resolved type of the harness variable, read off the DIE chain
RECURSIVE Underlying(_)
Underlying(t) ==
    IF t.tag \in {"DW_TAG_typedef", "DW_TAG_const_type", "DW_TAG_volatile_type",
                  "DW_TAG_restrict_type", "DW_TAG_shared_type"}
    THEN (IF Has(t, "type") THEN Underlying(t.type) ELSE NULL)
    ELSE t

HasUnderlying == Has(ty_die, "type") /\ ~IsNull(Underlying(ty_die.type))

UnderlyingSize ==
    LET t == Underlying(ty_die.type) IN IF Has(t, "byte_size") THEN t.byte_size ELSE 0

UnderlyingSigned ==
    LET t == Underlying(ty_die.type) IN
    Has(t, "encoding")
    /\ t.encoding \in {"DW_ATE_signed", "DW_ATE_signed_char", "DW_ATE_signed_fixed"}

Min(a, b) == IF a < b THEN a ELSE b

\* C5: every type tag the type convertor infers has a bit width of 8, 16,
\* 32 or 64, for every byte size of the underlying type.
C5_TagWidthIsPowerOfTwo ==
    (ty_out.called /\ ty_out.res.type # NoType) => ty_out.res.type[2] \in {8, 16, 32, 64}

\* C6: the type convertor emits 's' or 'u' by the signedness of the resolved
\* type followed by min(byte_size * 8, 64); a byte size of 0 gives no tag
\* and no error.
C6_TypeTag ==
    (ty_out.called /\ HasUnderlying) =>
        /\ ty_out.res.ret = 0
        /\ ty_out.res.type =
              IF UnderlyingSize = 0 THEN NoType
              ELSE <<IF UnderlyingSigned THEN "s" ELSE "u", Min(UnderlyingSize * 8, 64)>>

\* C6 witness: a signed 16-byte type behind a typedef was converted to s64
C6_Witness ==
    /\ ty_out.called /\ HasUnderlying
    /\ ty_die.type.tag = "DW_TAG_typedef"
    /\ UnderlyingSize = 16 /\ UnderlyingSigned
    /\ ty_out.res.type = <<"s", 64>>

\* The single op of the harness variable's location at the probe address
LocOps == IF Has(lo_die, "location") /\ lo_die.location # <<>> THEN lo_die.location[1].ops ELSE <<>>

\* C7: DW_OP_fbreg without a frame base (pf->fb_ops == NULL) fails with
\* ENOTSUP and leaves the argument without value and without reference.
C7_FbregWithoutFrameBase ==
    (lo_out.called /\ LocOps # <<>> /\ LocOps[1].atom = DW_OP_fbreg /\ lo_fb = <<>>) =>
        /\ lo_out.res.ret = -ENOTSUP
        /\ lo_out.res.value = <<>>
        /\ lo_out.res.ref = <<>>

\* C7 witness: the convertor ran on a DW_OP_fbreg variable with no frame base
C7_Witness ==
    /\ lo_out.called /\ LocOps # <<>> /\ LocOps[1].atom = DW_OP_fbreg /\ lo_fb = <<>>
    /\ lo_out.res.ret = -ENOTSUP

Mapped(n) == n \in 0..(NumArchRegs - 1)

IsRegister(value) == value # <<>> /\ value[1] = "%"

IsSymbol(value) == value # <<>> /\ value[1] = "@"

\* the argument was copied raw from the i-th argument of the request
IsRaw(arg, i) ==
    ~is_c_varname(pf.pev.args[i].var) /\ arg.value = pf.pev.args[i].var /\ arg.ref = <<>>

\* C8 as stated: every argument of every converted event is a register with
\* at least one reference frame, or @symbol, or a raw token of the request.
C8_RegisterHasFrame ==
    \A tev \in Events : tev.done =>
        \A i \in 1..Len(tev.args) :
            \/ IsRegister(tev.args[i].value) /\ Len(tev.args[i].ref) >= 1
            \/ IsSymbol(tev.args[i].value)
            \/ IsRaw(tev.args[i], i)

\* C8 amended: every argument of every converted event is a register name
\* with any number of reference frames (none for a variable that lives in
\* the register), or @symbol with at least one frame, or a raw token of the
\* request with no frame.
C8_ValueShape ==
    \A tev \in Events : tev.done =>
        \A i \in 1..Len(tev.args) :
            \/ is_c_varname(pf.pev.args[i].var) /\ IsRegister(tev.args[i].value)
            \/ /\ is_c_varname(pf.pev.args[i].var)
               /\ IsSymbol(tev.args[i].value) /\ Len(tev.args[i].ref) >= 1
            \/ IsRaw(tev.args[i], i)

\* C8 witness: the call returned two events, one of them converted to the
\* end with an argument that lives in a register and has no frame
C8_Witness ==
    /\ Returned /\ result = 2
    /\ \E tev \in Events : tev.done /\ \E i \in 1..Len(tev.args) :
          IsRegister(tev.args[i].value) /\ tev.args[i].ref = <<>>

\* C9: the mapping of a single location op (registers the architecture
\* names): regN/regx give the register and no reference; bregN n and
\* bregx {reg, n} give the register and one reference of offset n; fbreg n
\* over a frame base bregN+m gives register N and one reference of offset
\* n + m; addr gives "@" + name and one reference of offset 0.
C9_SingleOpMapping ==
    (lo_out.called /\ Len(LocOps) = 1) =>
        LET op == LocOps[1]
            r == lo_out.res
        IN
        /\ (op.atom \in DW_OP_reg0..DW_OP_reg31 /\ Mapped(op.atom - DW_OP_reg0)) =>
              r = [ret |-> 0, value |-> get_arch_regstr(op.atom - DW_OP_reg0), ref |-> <<>>]
        /\ (op.atom = DW_OP_regx /\ Mapped(op.number)) =>
              r = [ret |-> 0, value |-> get_arch_regstr(op.number), ref |-> <<>>]
        /\ (op.atom \in DW_OP_breg0..DW_OP_breg31 /\ Mapped(op.atom - DW_OP_breg0)) =>
              r = [ret |-> 0, value |-> get_arch_regstr(op.atom - DW_OP_breg0),
                   ref |-> <<op.number>>]
        /\ (op.atom = DW_OP_bregx /\ Mapped(op.number)) =>
              r = [ret |-> 0, value |-> get_arch_regstr(op.number), ref |-> <<op.number2>>]
        /\ (/\ op.atom = DW_OP_fbreg /\ lo_fb # <<>>
            /\ lo_fb[1].atom \in DW_OP_breg0..DW_OP_breg31
            /\ Mapped(lo_fb[1].atom - DW_OP_breg0)) =>
              r = [ret |-> 0, value |-> get_arch_regstr(lo_fb[1].atom - DW_OP_breg0),
                   ref |-> <<op.number + lo_fb[1].number>>]
        /\ (op.atom = DW_OP_addr) =>
              r = [ret |-> 0, value |-> <<"@">> \o lo_die.name, ref |-> <<0>>]

\* C9 witness: fbreg 1 over the frame base breg1+1 became register 1, offset 2
C9_Witness ==
    /\ lo_out.called /\ Len(LocOps) = 1
    /\ LocOps[1].atom = DW_OP_fbreg /\ LocOps[1].number = 1
    /\ lo_fb # <<>> /\ lo_fb[1].atom = DW_OP_breg0 + 1 /\ lo_fb[1].number = 1
    /\ lo_out.res.value = get_arch_regstr(1) /\ lo_out.res.ref = <<2>>

\* C10: after any sequence of adds from the empty list, the list is strictly
\* ascending (so without duplicates) and has_line holds exactly of the lines
\* an add has inserted.
C10_SortedAndExact ==
    /\ \A i \in 1..(Len(line_list) - 1) : line_list[i] < line_list[i + 1]
    /\ \A line \in 1..MaxLine : (line_list__has_line(line_list, line) = 1) <=> (line \in ll_added)

\* C10 witness: a list of three lines after an add that found its line present
C10_Witness ==
    /\ Len(line_list) = 3 /\ ll_ret = 1
    /\ ll_added = {line_list[1], line_list[2], line_list[3]}

\* C11: from any list and for any line, the first add of an absent line
\* returns 0, and a second add of the same line returns 1 and leaves the list
\* as the first add left it (allocation succeeding).
C11_AddIsIdempotent ==
    \A line \in 1..MaxLine :
        \E first \in {line_list__add_line(line_list, line, TRUE)} :
        \E second \in {line_list__add_line(first.list, line, TRUE)} :
            /\ line_list__has_line(line_list, line) = 0 => first.ret = 0
            /\ line_list__has_line(line_list, line) = 1 =>
                  first.ret = 1 /\ first.list = line_list
            /\ second.ret = 1
            /\ second.list = first.list
            /\ line_list__has_line(first.list, line) = 1

\* C11 witness: every line is in the list and an add has just found its
\* line present
C11_Witness == Len(line_list) = MaxLine /\ ll_ret = 1

\* one string is the end of the other
IsTail(t, s) == Len(t) <= Len(s) /\ t = SubSeq(s, Len(s) - Len(t) + 1, Len(s))

\* C12: get_real_path with a source prefix ends for every raw path and every
\* sequence of access() results: a retry follows only ENOENT, ENAMETOOLONG,
\* EROFS or EFAULT and uses a strictly shorter tail of the raw path, any other
\* error is returned at once, and with no component left to strip the call
\* returns -ENOENT.
C12_PathResolutionTerminates ==
    /\ [][gp.called /\ gp.prefixed =>
            /\ gp'.at = "access" =>
                  /\ gp'.errno \in RetryErrnos
                  /\ Len(gp'.raw_path) < Len(gp.raw_path)
                  /\ IsTail(gp'.raw_path, gp.raw_path)
            /\ gp'.at = "done" /\ gp'.errno \notin RetryErrnos => gp'.ret = -(gp'.errno)
            /\ gp'.at = "done" /\ gp'.errno \in RetryErrnos =>
                  /\ gp'.ret = -ENOENT
                  /\ \A k \in 2..Len(gp.raw_path) : gp.raw_path[k] # "/"]_vars
    /\ <>(gp.at = "done")

\* C12 witness: the third access() of a prefixed path failed with a retry
\* errno and nothing was left to strip
C12_Witness ==
    gp.called /\ gp.prefixed /\ gp.at = "done" /\ gp.tried = 3 /\ gp.ret = -ENOENT
    /\ gp.errno = EROFS

\* t is the end of s and begins where a component of s begins
IsComponentTail(t, s) ==
    /\ IsTail(t, s)
    /\ \/ Len(t) = Len(s)
       \/ Len(t) = 0
       \/ t[1] = "/"
       \/ s[Len(s) - Len(t)] = "/"

\* C13 as stated: strtailcmp returns 0 exactly when one path is the tail of
\* the other and that tail begins at a path-component boundary.
C13_ComponentTail ==
    tc.called /\ tc.done =>
        (tc.ret = 0 <=> IsComponentTail(tc.s1, tc.s2) \/ IsComponentTail(tc.s2, tc.s1))

\* C13 amended: strtailcmp returns 0 exactly when the shorter string is the
\* character tail of the longer one, wherever in a component that tail begins,
\* and the match is the same with the arguments exchanged.
C13_CharacterTail ==
    tc.called /\ tc.done =>
        /\ tc.ret = 0 <=> IsTail(tc.s1, tc.s2) \/ IsTail(tc.s2, tc.s1)
        /\ tc.ret = 0 <=> strtailcmp(tc.s2, tc.s1) = 0

\* C13 witness: a match whose tail begins in the middle of a component
C13_Witness ==
    tc.called /\ tc.done /\ tc.ret = 0
    /\ tc.s1 = <<"a">> /\ tc.s2 = <<"/", "a", "a">>

\* the named real functions of the debug information whose entry is addr
EntriesAt(addr) ==
    {d \in UNION {{Funcs(Dbg[i])[k] : k \in 1..Len(Funcs(Dbg[i]))} : i \in 1..Len(Dbg)} :
        Has(d, "name") /\ ~dwarf_func_inline(d) /\ HasEntryPc(d) /\ d.lowpc = addr}

\* the reverse search names F at offset 0 and the search for F alone gives an
\* event at F+0
RoundTrip(F) ==
    /\ rl.ret = 1 /\ rl.ppt.function = F.name /\ rl.ppt.offset = 0
    /\ \E ev \in EntryEvents(Dbg, F.name) :
          ev.done /\ ev.symbol = F.name /\ ev.offset = 0

C15_ReturnValue ==
    rl.called /\ rl.done =>
        /\ rl.ret \in {1, 0, -EBADF, -ENOMEM}
        /\ rl.ret = 1 <=> (rl.ppt.file # <<>> \/ rl.ppt.function # <<>>)
        /\ rl.ret = -EBADF => ~rl.opened
        /\ rl.ret = -ENOMEM => ~rl.file_ok \/ ~rl.function_ok
        /\ rl.ppt.function # <<>> => rl.ret >= 0

RangeScope ==
    IF dwarf_func_inline(lf.sp)
    THEN InlineInstances(Dbg[lf.off - 1], lf.request.function)[1]
    ELSE lf.sp

\* the line-table lines of the last CU within the scope and outside its
\* inlined instances
ScopedLines ==
    {l.lineno : l \in {r \in {Dbg[lf.off - 1].lines[i] :
                                 i \in 1..Len(Dbg[lf.off - 1].lines)} :
                          /\ dwarf_haspc(RangeScope, r.addr)
                          /\ IsNull(die_find_inlinefunc(RangeScope, r.addr))}}

\* a search by function name found lines for a function with a declaration line
RangeOfDeclared ==
    /\ lf.called /\ lf.at = "done" /\ lf.result = 1 /\ lf.request.function # <<>>
    /\ Has(lf.sp, "decl_line") /\ Has(lf.sp, "decl_file")

InNestedInline(die, addr) ==
    \E k \in 1..Len(Walk(Children(die), 1)) :
        LET d == Walk(Children(die), 1)[k] IN
        /\ d.tag = "DW_TAG_inlined_subroutine"
        /\ Has(d, "lowpc") /\ Has(d, "highpc") /\ d.lowpc <= addr /\ addr < d.highpc

\* C18: while a lazy pattern is searched within a function (or an instance
\* of an inline function), an event is taken only at a line address that
\* lies in the PC range of that scope and in none of the inlined instances
\* nested in it; the event is placed at that address.
C18_LazySitesInsideScope ==
    [][pp.function # <<>> /\ pp.lazy_line # <<>> /\ Len(pf'.tevs) > Len(pf.tevs) =>
          /\ pc = "lazy_loop" /\ ~IsNull(lazy_sp)
          /\ pf'.addr = cur_line.addr
          /\ lazy_sp.lowpc <= pf'.addr /\ pf'.addr < lazy_sp.highpc
          /\ ~InNestedInline(lazy_sp, pf'.addr)
          /\ pf'.tevs[Len(pf'.tevs)].symbol # <<>> =>
                pf'.tevs[Len(pf'.tevs)].sp.lowpc + pf'.tevs[Len(pf'.tevs)].offset
                   = pf'.addr]_vars

\* C18 witness: the pattern searched in h gave one event, at line 11
\* (address 6, h+2), and the matching line 7 of the inlined g at address 5
\* was passed over
C18_Witness ==
    /\ pc = "lazy_loop" /\ pp.function = <<"h">> /\ pp.lazy_line # <<>> /\ idx = 8
    /\ Len(pf.tevs) = 1 /\ pf.tevs[1].symbol = <<"h">> /\ pf.tevs[1].offset = 2

\* the field the last call converted and the type it was applied to
LastField == fw.field[fw.k - 1]

OnType == die_get_real_type(fw.on)

\* the type a pointer or array type refers to
Pointee == die_get_real_type(OnType)

\* DW_AT_data_member_location of the member called name
OffsetOf(st, name) ==
    LET m == CHOOSE m \in {st.children[i] : i \in 1..Len(st.children)} : m.name = name
    IN  m.data_member_location.val

\* one frame is appended behind the frames there were
Appended(offset) == fw.ref = Append(fw.was, offset)

\* the offset is added to the last frame, the others are as they were
AddedToLast(offset) ==
    /\ Len(fw.ref) = Len(fw.was) /\ Len(fw.was) > 0
    /\ \A i \in 1..(Len(fw.was) - 1) : fw.ref[i] = fw.was[i]
    /\ fw.ref[Len(fw.ref)] = fw.was[Len(fw.was)] + offset

\* C19: a converted `->name` appends one frame holding the member offset, a
\* converted `[index]` on a pointer appends one frame holding index times
\* the size of the pointee, a converted `.name` adds the member offset to
\* the last frame and a converted `[index]` on an array adds index times the
\* element size to the last frame; a->b.c->d style chains add two frames,
\* the first with the sum of the first two offsets; and the walk as a whole
\* gives the frames the steps gave.
C19_FramesPerStep ==
    fw.called /\ fw.k > 1 /\ fw.at \in {"walk", "done"} =>
        /\ LastField.name[1] # "[" /\ LastField.ref =>
              OnType.tag = "DW_TAG_pointer_type"
              /\ Appended(OffsetOf(Pointee, LastField.name))
        /\ LastField.name[1] # "[" /\ ~LastField.ref =>
              OnType.tag = "DW_TAG_structure_type"
              /\ AddedToLast(OffsetOf(OnType, LastField.name))
        /\ LastField.name[1] = "[" /\ OnType.tag = "DW_TAG_pointer_type" =>
              Appended(LastField.index * Pointee.byte_size)
        /\ LastField.name[1] = "[" /\ OnType.tag # "DW_TAG_pointer_type" =>
              OnType.tag = "DW_TAG_array_type"
              /\ AddedToLast(LastField.index * Pointee.byte_size)
        /\ fw.at = "done" =>
              /\ convert_variable_fields(fw.var, fw.field, 1, fw.first).ret = 0
              /\ convert_variable_fields(fw.var, fw.field, 1, fw.first).ref = fw.ref
        /\ fw.at = "done" /\ fw.field = ArrowDotArrow =>
              fw.ref = fw.first \o <<16 + 8, 4>>

\* C19 witness: v->a.b->c on a struct P * with one frame is converted
C19_Witness ==
    /\ fw.called /\ fw.at = "done" /\ fw.field = ArrowDotArrow
    /\ fw.var.type = PointerTo(StructP) /\ fw.first = <<1>> /\ fw.ref = <<1, 24, 4>>

\* the kinds of field the last call was given
IsIndex == LastField.name[1] = "["
IsArrow == ~IsIndex /\ LastField.ref
IsDot == ~IsIndex /\ ~LastField.ref

OnPointer == OnType.tag = "DW_TAG_pointer_type"
OnStructure == OnType.tag = "DW_TAG_structure_type"

HasMember(st, name) == \E i \in 1..Len(Children(st)) : Children(st)[i].name = name

\* `.name` on a structure that no frame addresses
DotWithoutFrame == IsDot /\ OnStructure /\ fw.was = <<>>

\* `->name` on a pointer to a type that is there and is not a structure
ArrowToNonStructure ==
    IsArrow /\ OnPointer /\ ~IsNull(Pointee) /\ Pointee.tag # "DW_TAG_structure_type"

\* `->name` on a pointer without a pointee type DIE: void *
ArrowToVoid == IsArrow /\ OnPointer /\ IsNull(Pointee)

\* the other ill-typed fields: `.name` on a pointer, `->name` or `.name` on
\* what is neither pointer nor structure, `->name` on a structure, `[index]`
\* on neither array nor pointer, a name the structure has no member for
IllTyped ==
    \/ IsDot /\ OnPointer
    \/ IsArrow /\ ~OnPointer
    \/ IsDot /\ ~OnPointer /\ ~OnStructure
    \/ IsIndex /\ OnType.tag \notin {"DW_TAG_array_type", "DW_TAG_pointer_type"}
    \/ IsDot /\ OnStructure /\ fw.was # <<>> /\ ~HasMember(OnType, LastField.name)
    \/ IsArrow /\ OnPointer /\ ~IsNull(Pointee) /\ Pointee.tag = "DW_TAG_structure_type"
          /\ ~HasMember(Pointee, LastField.name)

Rejected(err) == fw.at = "failed" /\ fw.ret = err

\* C20 as stated: every ill-typed field is rejected with -EINVAL, `->name`
\* on a pointer to anything but a structure included, and `.name` on a
\* structure without a frame with -ENOTSUP.
C20_IllTypedIsInvalid ==
    fw.called /\ fw.k > 1 /\ fw.at # "fault" =>
        /\ IllTyped \/ ArrowToNonStructure \/ ArrowToVoid => Rejected(-EINVAL)
        /\ DotWithoutFrame => Rejected(-ENOTSUP)

\* C20 amended: the same, except that `->name` on a pointer without a
\* pointee type (void *) is rejected with -ENOENT.
C20_IllTypedIsRejected ==
    fw.called /\ fw.k > 1 /\ fw.at # "fault" =>
        /\ IllTyped \/ ArrowToNonStructure => Rejected(-EINVAL)
        /\ ArrowToVoid => Rejected(-ENOENT)
        /\ DotWithoutFrame => Rejected(-ENOTSUP)

\* C20 witness: `.z` was applied to the struct A that v->a left, where
\* struct A has no member z
C20_Witness ==
    /\ fw.called /\ fw.at = "failed" /\ fw.ret = -EINVAL /\ fw.k = 3
    /\ LastField = Field(<<"z">>, FALSE) /\ OnStructure /\ fw.was = <<0, 16>>

\* the ops the location convertor has a case for
IsSupportedOp(op) ==
    \/ op.atom \in {DW_OP_addr, DW_OP_fbreg, DW_OP_bregx, DW_OP_regx}
    \/ op.atom >= DW_OP_breg0 /\ op.atom <= DW_OP_breg31
    \/ op.atom >= DW_OP_reg0 /\ op.atom <= DW_OP_reg31

\* the location expression of the variable at the probe address
OpsAtProbe == dwarf_getlocation_addr(lo_die.location, 0).ops

\* C21: a variable whose location expression at the probe address has more
\* than one op, or whose single op is none of DW_OP_addr, DW_OP_fbreg,
\* DW_OP_bregN, DW_OP_bregx, DW_OP_regN, DW_OP_regx, is rejected with
\* -ENOTSUP and gets no value.
C21_OnlySingleSupportedOp ==
    lo_out.called /\ Has(lo_die, "location") /\ Len(OpsAtProbe) > 0 =>
        (Len(OpsAtProbe) > 1 \/ ~IsSupportedOp(OpsAtProbe[1]) =>
            lo_out.res.ret = -ENOTSUP /\ lo_out.res.value = <<>>)

\* C22: find_kprobe_trace_events never writes the offset of a field through
\* a reference that does not exist: an `[index]` on an array variable held
\* in a register, for which the location convertor made no reference, ends
\* in an error return and not in an access through the NULL reference.
C22_NoAbsentFrame == pc # "fault"

\* the address an event was placed at
EventAddr(ev) == IF Has(ev.sp, "name") THEN ev.sp.lowpc + ev.offset ELSE ev.offset

\* the line records of all CUs
AllLines == UNION {{CUs[c].lines[k] : k \in 1..Len(CUs[c].lines)} : c \in 1..Len(CUs)}

\* the numbers of the lines of the file that match the pattern
MatchingLines(fname, pat) ==
    {SourceLines(fname, pat).match[k] : k \in 1..Len(SourceLines(fname, pat).match)}

\* C23: in a call with a lazy pattern, every event is at a line-table entry
\* whose line, in the source file of that entry, matches the pattern, also
\* when several CUs or functions of the same name in different files are
\* visited in the call.
C23_LazySitesMatchTheirFile ==
    pc # "idle" /\ pp.lazy_line # <<>> =>
        \A i \in 1..Len(pf.tevs) :
            pf.tevs[i].done =>
                \A l \in AllLines :
                    l.addr = EventAddr(pf.tevs[i]) =>
                        l.lineno \in MatchingLines(l.src, pp.lazy_line)

====
